---- MODULE Spec2Model ----
(***************************************************************************)
(* Model of the drive_backend sync core: the Local-to-Remote Syncer        *)
(* (local_to_remote_syncer.cc), the part of SyncEngine that dispatches it  *)
(* (sync_engine.cc), and the collaborators they call (SyncTaskManager,     *)
(* MetadataDatabase, FolderCreator, the Drive service), whose code is not  *)
(* part of the sources and is modelled from the design document.           *)
(*                                                                         *)
(* Virtual paths are modelled along one chain of components: a path is its *)
(* number of components (0 is the application root), and the component at  *)
(* depth d has title d.  A tracker tracks exactly one remote file, so the  *)
(* tracker id and the file id of a tracker are the same number.            *)
(*                                                                         *)
(* The last section models ChangeListProcessor                             *)
(* (chromeos/drive/change_list_processor.cc), which applies a change list  *)
(* to the Drive metadata entry by entry.                                   *)
(***************************************************************************)
EXTENDS Integers, Sequences, FiniteSets, TLC

\* Longest virtual path, in components.
MaxDepth == 3
\* Number of ApplyLocalChange calls in one behaviour.
MaxApplies == 3
\* Longest queue of pending tasks the engine's events are followed with.
MaxPending == 1
\* Last reading of the clock (base::TimeTicks::Now), in ticks.
MaxTime == 3
\* kListChangesRetryDelaySeconds, in ticks of the clock.
kListChangesRetryDelaySeconds == 2
\* Longest queue of pending tasks the admission order is followed with.
MaxQueued == 3

\* An allowance of one background task.
MaxBackgroundTaskOne == 0 + 1

\* maximum_background_task handed to SyncTaskManager by SyncEngine::Initialize.
MaxBackgroundTask == 0

-----------------------------------------------------------------------------
(* Status codes, actions, error codes *)

SYNC_STATUS_OK == "Ok"
SYNC_STATUS_FAILED == "Failed"
SYNC_STATUS_RETRY == "Retry"
SYNC_STATUS_FILE_BUSY == "FileBusy"
SYNC_STATUS_UNKNOWN_ORIGIN == "UnknownOrigin"
SYNC_STATUS_NETWORK_ERROR == "NetworkError"
SYNC_STATUS_HAS_CONFLICT == "HasConflict"
SYNC_FILE_ERROR_NOT_FOUND == "FileErrorNotFound"
SYNC_DATABASE_ERROR_FAILED == "DatabaseErrorFailed"
SYNC_DATABASE_ERROR_CORRUPTION == "DatabaseErrorCorruption"
SYNC_DATABASE_ERROR_IO_ERROR == "DatabaseErrorIOError"
SYNC_STATUS_AUTHENTICATION_FAILED == "AuthenticationFailed"
SYNC_STATUS_ACCESS_FORBIDDEN == "AccessForbidden"
SYNC_STATUS_SERVICE_TEMPORARILY_UNAVAILABLE == "ServiceTemporarilyUnavailable"
SYNC_STATUS_ABORT == "Abort"
SYNC_STATUS_NO_CHANGE_TO_SYNC == "NoChangeToSync"

\* The statuses a task reports to the scheduler.
SyncStatusCodes ==
  {SYNC_STATUS_OK, SYNC_STATUS_FAILED, SYNC_STATUS_RETRY, SYNC_STATUS_FILE_BUSY,
   SYNC_STATUS_UNKNOWN_ORIGIN, SYNC_STATUS_NETWORK_ERROR,
   SYNC_STATUS_HAS_CONFLICT, SYNC_FILE_ERROR_NOT_FOUND,
   SYNC_DATABASE_ERROR_FAILED, SYNC_DATABASE_ERROR_CORRUPTION,
   SYNC_DATABASE_ERROR_IO_ERROR, SYNC_STATUS_AUTHENTICATION_FAILED,
   SYNC_STATUS_ACCESS_FORBIDDEN, SYNC_STATUS_SERVICE_TEMPORARILY_UNAVAILABLE,
   SYNC_STATUS_ABORT, SYNC_STATUS_NO_CHANGE_TO_SYNC}

REMOTE_SERVICE_OK == "REMOTE_SERVICE_OK"
REMOTE_SERVICE_TEMPORARY_UNAVAILABLE == "REMOTE_SERVICE_TEMPORARY_UNAVAILABLE"
REMOTE_SERVICE_AUTHENTICATION_REQUIRED == "REMOTE_SERVICE_AUTHENTICATION_REQUIRED"
REMOTE_SERVICE_DISABLED == "REMOTE_SERVICE_DISABLED"

SYNC_ACTION_NONE == "None"
SYNC_ACTION_ADDED == "Added"
SYNC_ACTION_UPDATED == "Updated"
SYNC_ACTION_DELETED == "Deleted"

\* The results a Drive call can come back with.
GDataErrorCodes ==
  {"HTTP_SUCCESS", "HTTP_NOT_FOUND", "HTTP_PRECONDITION", "HTTP_CONFLICT",
   "GDATA_NO_CONNECTION"}

GDataErrorCodeToSyncStatusCode(error) ==
  CASE error = "HTTP_SUCCESS" -> SYNC_STATUS_OK
    [] error = "HTTP_NOT_FOUND" -> SYNC_FILE_ERROR_NOT_FOUND
    [] error = "HTTP_PRECONDITION" -> SYNC_STATUS_HAS_CONFLICT
    [] error = "HTTP_CONFLICT" -> SYNC_STATUS_HAS_CONFLICT
    [] error = "GDATA_NO_CONNECTION" -> SYNC_STATUS_NETWORK_ERROR
    [] OTHER -> SYNC_STATUS_FAILED

\* The statuses a write to the metadata store reports to its callback.
DatabaseStatuses == {SYNC_STATUS_OK, SYNC_DATABASE_ERROR_FAILED}

FILE_KIND_FILE == "file"
FILE_KIND_FOLDER == "folder"

-----------------------------------------------------------------------------
VARIABLES
  trackers,                 \* MetadataDatabase: the FileTracker records
  files,                    \* MetadataDatabase: FileMetadata details by file id
  next_id,                  \* the next file id the remote store hands out
  local,                    \* the local change being applied (fixed per behaviour)
  context_ready,            \* SyncEngineContext holds service, uploader and database
  syncer,                   \* the fields of the running LocalToRemoteSyncer
  remote_calls,             \* Drive calls issued by the current (or last) run
  pending_tasks_,           \* SyncTaskManager: the queued tasks
  running_task_,            \* SyncTaskManager: the task holding the foreground lane
  running_background_task_, \* SyncTaskManager: tasks running in the background
  listing_remote_changes_,  \* SyncEngine: a ListChangesTask is in flight
  service_state_,           \* SyncEngine: the state the last event left
  sync_enabled_,            \* SyncEngine: SetSyncEnabled(true) is in force
  network_available_,       \* SyncEngine: the last connection type was not NONE
  should_check_remote_change_, \* SyncEngine: a listing has been asked for
  should_check_conflict_,   \* SyncEngine: a ConflictResolver is worth running
  time_to_check_changes_,   \* SyncEngine: when the next periodic listing is due
  now,                      \* base::TimeTicks::Now
  log,                      \* the calls the engine made in the last step, in
                            \* order: observers, RegisterOrigin, the callback
  applies,                  \* number of ApplyLocalChange calls made
  completed,                \* number of syncer runs that reported a status
  last,                     \* what the last completed run reported to the engine
  hist,                     \* history: what the behaviour has gone through
  processor                 \* the fields of the ChangeListProcessor and the
                            \* task or callback it has pending

vars == <<trackers, files, next_id, local, context_ready, syncer, remote_calls,
          pending_tasks_, running_task_, running_background_task_,
          listing_remote_changes_, service_state_, sync_enabled_,
          network_available_, should_check_remote_change_,
          should_check_conflict_, time_to_check_changes_, now, log,
          applies, completed, last, hist, processor>>

store_vars == <<trackers, files, next_id>>
sched_vars == <<pending_tasks_, running_task_, running_background_task_>>
service_vars == <<service_state_, sync_enabled_, network_available_,
                  should_check_remote_change_, should_check_conflict_,
                  time_to_check_changes_>>
engine_vars == <<listing_remote_changes_, service_vars, completed, last>>

-----------------------------------------------------------------------------
(* Metadata store: trackers and file metadata *)

\* FileDetails: the title of the path component at depth d is d.
Details(missing, kind, title, parent, md5) ==
  [missing |-> missing, file_kind |-> kind, title |-> title,
   parent |-> parent, md5 |-> md5]

\* A FileTracker.  tracker_id doubles as file_id.
Tracker(id, parent, active, dirty, details) ==
  [tracker_id |-> id, parent_tracker_id |-> parent, active |-> active,
   dirty |-> dirty, synced_details |-> details]

\* The empty scoped_ptr<FileTracker>.
NoTracker == Tracker(0, 0, FALSE, FALSE, Details(TRUE, FILE_KIND_FILE, 0, 0, 0))

HasFileAsParent(details, parent_file_id) == details.parent = parent_file_id

FindTrackerByTrackerID(ts, tracker_id) ==
  IF \E t \in ts : t.tracker_id = tracker_id
  THEN CHOOSE t \in ts : t.tracker_id = tracker_id
  ELSE NoTracker

\* The active trackers claiming the slot parent+title.
ActiveTrackersAt(ts, parent_tracker_id, title) ==
  {t \in ts : /\ t.active
              /\ t.parent_tracker_id = parent_tracker_id
              /\ t.synced_details.title = title}

RECURSIVE Descend(_, _, _, _)
Descend(ts, t, depth, path) ==
  IF depth = path \/ ActiveTrackersAt(ts, t.tracker_id, depth + 1) = {}
  THEN [found |-> TRUE, tracker |-> t, path |-> depth]
  ELSE Descend(ts, CHOOSE c \in ActiveTrackersAt(ts, t.tracker_id, depth + 1) : TRUE,
               depth + 1, path)

\* The deepest active tracker on the way from the app root to path; not found
\* when the app has no active root.
FindNearestActiveAncestor(ts, path) ==
  IF ActiveTrackersAt(ts, 0, 0) = {}
  THEN [found |-> FALSE, tracker |-> NoTracker, path |-> 0]
  ELSE Descend(ts, CHOOSE r \in ActiveTrackersAt(ts, 0, 0) : TRUE, 0, path)

RECURSIVE WithDescendants(_, _)
WithDescendants(ts, ids) ==
  LET kids == {t.tracker_id : t \in {u \in ts : u.parent_tracker_id \in ids}} IN
  IF kids \subseteq ids THEN ids ELSE WithDescendants(ts, ids \cup kids)

\* The trackers below those of ids.
DescendantsOf(ts, ids) ==
  {t \in ts : t.tracker_id \in WithDescendants(ts, ids) \ ids}

\* update_by_deleted_remote_file: the file is recorded missing and its tracker
\* is dropped with everything below it.
UpdateByDeletedRemoteFile_trackers(ts, file_id) ==
  {t \in ts : t.tracker_id \notin WithDescendants(ts, {file_id})}

UpdateByDeletedRemoteFile_files(fs, file_id) ==
  [fs EXCEPT ![file_id].missing = TRUE]

\* update_by_file_resource: the metadata is replaced and the file's tracker is
\* marked dirty.
UpdateByFileResource_trackers(ts, file_id) ==
  {IF t.tracker_id = file_id THEN [t EXCEPT !.dirty = TRUE] ELSE t : t \in ts}

UpdateByFileResource_files(fs, file_id, details) ==
  [fs EXCEPT ![file_id] = details]

\* update_tracker: the tracker's synced snapshot becomes details, which leaves
\* nothing pending for it.
UpdateTracker(ts, tracker_id, details) ==
  {IF t.tracker_id = tracker_id
   THEN [t EXCEPT !.synced_details = details, !.dirty = FALSE]
   ELSE t : t \in ts}

\* replace_active_tracker_with_new_resource: the new file gets the active
\* tracker of its parent+title; a tracker that was active there is deactivated
\* and loses its descendants.
ReplaceActiveTrackerWithNewResource(ts, parent_tracker_id, file_id, details) ==
  LET old == ActiveTrackersAt(ts, parent_tracker_id, details.title)
      gone == DescendantsOf(ts, {t.tracker_id : t \in old})
  IN {IF t \in old THEN [t EXCEPT !.active = FALSE] ELSE t : t \in ts \ gone}
     \cup {Tracker(file_id, parent_tracker_id, TRUE, FALSE, details)}

\* try_activate_tracker: fails when another tracker is active for the slot.
TryActivateTracker_status(ts, parent_tracker_id, file_id) ==
  LET t == FindTrackerByTrackerID(ts, file_id) IN
  IF ActiveTrackersAt(ts, parent_tracker_id, t.synced_details.title) \ {t} # {}
  THEN "ACTIVATION_FAILED_ANOTHER_ACTIVE_TRACKER"
  ELSE "ACTIVATION_PENDING"

TryActivateTracker_trackers(ts, file_id) ==
  {IF t.tracker_id = file_id THEN [t EXCEPT !.active = TRUE] ELSE t : t \in ts}

\* What a new remote object adds to the store before it is activated: its
\* metadata and an inactive tracker under the parent.
NewInactiveTracker(file_id, parent_tracker_id, details) ==
  Tracker(file_id, parent_tracker_id, FALSE, TRUE, details)

-----------------------------------------------------------------------------
(* The local change and the syncer's fields *)

\* IsLocalFileMissing that takes a delete for missing only when the metadata
\* has no type.
IsLocalFileMissingByTypeOnly(local_metadata_type, local_change) ==
  local_metadata_type = "Unknown"

IsLocalFileMissing(local_metadata_type, local_change) ==
  local_metadata_type = "Unknown" \/ local_change = "Delete"

local_is_missing_ == IsLocalFileMissing(local.metadata_type, local.change)

\* ChangeListProcessor after its constructor (change_list_processor.cc): an
\* empty entry map, no upload URL for the root, no completion callback, and
\* nothing posted.  `it` is the iterator a posted ApplyNextByIterator holds,
\* entry_proto the entry bound to a pending ContinueApplyEntryProto (0 is
\* none); applied lists the entries handed to ApplyEntryProto, in order,
\* and fed_map keeps the map as ApplyFeeds built it.
NewProcessor ==
  [entry_proto_map_ |-> <<>>,
   root_upload_url_is_valid |-> FALSE,
   on_complete_callback_is_null |-> TRUE,
   task |-> "none",
   it |-> 0,
   entry_proto |-> 0,
   applied |-> <<>>,
   on_complete_callback_runs |-> 0,
   fed_map |-> <<>>]

\* LocalToRemoteSyncer's constructor.
NewSyncer ==
  [pc |-> "none", token |-> "none", dropped |-> FALSE, notified |-> 0,
   target_path_ |-> 0, sync_action_ |-> SYNC_ACTION_NONE,
   needs_remote_change_listing_ |-> FALSE,
   remote_file_tracker_ |-> NoTracker,
   remote_parent_folder_tracker_ |-> NoTracker,
   callback |-> "none", used_network |-> FALSE,
   url_is_valid |-> local.url_is_valid]

\* What a handler leaves behind: the syncer's fields, the Drive calls issued,
\* the store, whether every call and store write it saw succeeded, and, when
\* it ended the run, the status it reports.
Cont(s) ==
  [syncer |-> s, calls |-> remote_calls, trackers |-> trackers, files |-> files,
   next_id |-> next_id, ok |-> TRUE, done |-> FALSE, status |-> SYNC_STATUS_OK]

\* SyncTaskManager::NotifyTaskDone(token.Pass(), status), as the syncer calls it.
TaskDone(o, status) == [o EXCEPT !.done = TRUE, !.status = status]

\* SyncCompleted that lets the status stand when a remote listing is needed.
SyncCompletedWithoutBusy(o, status) ==
  TaskDone(o, IF status = SYNC_STATUS_OK /\ o.syncer.target_path_ # local.path
              THEN SYNC_STATUS_RETRY ELSE status)

\* SyncCompleted that reports Ok whatever path the run worked on.
SyncCompletedForAnyTarget(o, status) ==
  TaskDone(o, IF o.syncer.needs_remote_change_listing_
              THEN SYNC_STATUS_FILE_BUSY ELSE status)

SyncCompleted(o, status) ==
  LET st1 == IF status = SYNC_STATUS_OK /\ o.syncer.target_path_ # local.path
             THEN SYNC_STATUS_RETRY ELSE status
      st2 == IF o.syncer.needs_remote_change_listing_
             THEN SYNC_STATUS_FILE_BUSY ELSE st1
  IN TaskDone(o, st2)

\* CompleteWithRetryStatus that passes Ok on as it is.
CompleteWithGivenStatus(o, status) == SyncCompleted(o, status)

\* CompleteWithRetryStatus that hands the token back itself, past SyncCompleted.
CompleteWithRetryStatusNotifyingDirectly(o, status) ==
  TaskDone(o, IF status = SYNC_STATUS_OK THEN SYNC_STATUS_RETRY ELSE status)

CompleteWithRetryStatus(o, status) ==
  SyncCompleted(o, IF status = SYNC_STATUS_OK THEN SYNC_STATUS_RETRY ELSE status)

\* Running the SyncStatusCallback bound by the caller of DeleteRemoteFile.
RunCallback(o, status) ==
  IF o.syncer.callback = "CompleteWithRetryStatus"
  THEN CompleteWithRetryStatus(o, status)
  ELSE SyncCompleted(o, status)

\* A Drive call is sent and the handler named pc waits for its result.
Issue(o, pc, call) ==
  [o EXCEPT !.syncer.pc = pc, !.syncer.used_network = TRUE,
            !.calls = Append(@, call)]

\* The Drive call the handler waited for has come back with error.
Received(o, error) == [o EXCEPT !.calls[Len(o.calls)].reply = error]

\* A write to the metadata store that reports db to its callback; a failed
\* write leaves the store as it was.
StoreWrite(o, db, ts, fs) ==
  IF db = SYNC_STATUS_OK
  THEN [o EXCEPT !.trackers = ts, !.files = fs]
  ELSE [o EXCEPT !.ok = FALSE]

\* The FileResource a Drive call returns for an existing file.
EntryVariants == {"same", "retitled", "moved", "trashed", "null"}

EntryDetails(variant, details, md5) ==
  CASE variant = "retitled" -> [details EXCEPT !.title = -1, !.md5 = md5, !.missing = FALSE]
    [] variant = "moved" -> [details EXCEPT !.parent = -1, !.md5 = md5, !.missing = FALSE]
    [] variant = "trashed" -> [details EXCEPT !.missing = TRUE, !.md5 = md5]
    [] OTHER -> [details EXCEPT !.md5 = md5, !.missing = FALSE]

-----------------------------------------------------------------------------
(* LocalToRemoteSyncer: the handlers, as functions of the state and of the  *)
(* results that come back from the Drive service and the metadata store     *)

DeleteRemoteFile(o, callback) ==
  Issue([o EXCEPT !.syncer.sync_action_ = SYNC_ACTION_DELETED,
                  !.syncer.callback = callback],
        "DidDeleteRemoteFile",
        [reply |-> "pending", op |-> "DeleteResource",
         file_id |-> o.syncer.remote_file_tracker_.tracker_id])

\* DidDeleteRemoteFile that applies an accepted deletion to the store as it
\* applies a not-found.
DidDeleteRemoteFileApplyingSuccess(o, error, db) ==
  LET status == GDataErrorCodeToSyncStatusCode(error)
      file_id == o.syncer.remote_file_tracker_.tracker_id
  IN
  IF /\ status # SYNC_STATUS_OK
     /\ error # "HTTP_NOT_FOUND"
     /\ error # "HTTP_PRECONDITION"
     /\ error # "HTTP_CONFLICT"
  THEN RunCallback([o EXCEPT !.ok = FALSE], status)
  ELSE IF error \in {"HTTP_NOT_FOUND", "HTTP_SUCCESS"}
  THEN RunCallback(
         StoreWrite([o EXCEPT !.ok = (error = "HTTP_SUCCESS")], db,
                    UpdateByDeletedRemoteFile_trackers(o.trackers, file_id),
                    UpdateByDeletedRemoteFile_files(o.files, file_id)),
         db)
  ELSE RunCallback([o EXCEPT !.ok = FALSE], SYNC_STATUS_OK)

\* DidDeleteRemoteFile that takes not-found for a plain success and leaves
\* the store alone.
DidDeleteRemoteFileKeepingTracker(o, error, db) ==
  IF /\ GDataErrorCodeToSyncStatusCode(error) # SYNC_STATUS_OK
     /\ error \notin {"HTTP_NOT_FOUND", "HTTP_PRECONDITION", "HTTP_CONFLICT"}
  THEN RunCallback([o EXCEPT !.ok = FALSE],
                   GDataErrorCodeToSyncStatusCode(error))
  ELSE RunCallback([o EXCEPT !.ok = (error = "HTTP_SUCCESS")], SYNC_STATUS_OK)

DidDeleteRemoteFile(o, error, db) ==
  LET status == GDataErrorCodeToSyncStatusCode(error)
      file_id == o.syncer.remote_file_tracker_.tracker_id
  IN
  IF /\ status # SYNC_STATUS_OK
     /\ error # "HTTP_NOT_FOUND"
     /\ error # "HTTP_PRECONDITION"
     /\ error # "HTTP_CONFLICT"
  THEN RunCallback([o EXCEPT !.ok = FALSE], status)
  ELSE IF error = "HTTP_NOT_FOUND"
  THEN RunCallback(
         StoreWrite([o EXCEPT !.ok = FALSE], db,
                    UpdateByDeletedRemoteFile_trackers(o.trackers, file_id),
                    UpdateByDeletedRemoteFile_files(o.files, file_id)),
         db)
  ELSE RunCallback([o EXCEPT !.ok = (error = "HTTP_SUCCESS")], SYNC_STATUS_OK)

\* The digest is computed on the file task runner; no Drive call is made yet.
UploadExistingFile(o) == [o EXCEPT !.syncer.pc = "DidGetMD5ForUpload"]

\* DidGetMD5ForUpload that uploads whatever the digest is.
DidGetMD5ForUploadUnconditionally(o, local_file_md5) ==
  Issue([o EXCEPT !.syncer.sync_action_ = SYNC_ACTION_UPDATED],
        "DidUploadExistingFile",
        [reply |-> "pending", op |-> "UploadExistingFile",
         file_id |-> o.syncer.remote_file_tracker_.tracker_id])

DidGetMD5ForUpload(o, local_file_md5) ==
  IF local_file_md5 = o.syncer.remote_file_tracker_.synced_details.md5
  THEN SyncCompleted(o, SYNC_STATUS_OK)
  ELSE Issue([o EXCEPT !.syncer.sync_action_ = SYNC_ACTION_UPDATED],
             "DidUploadExistingFile",
             [reply |-> "pending", op |-> "UploadExistingFile",
              file_id |-> o.syncer.remote_file_tracker_.tracker_id])

\* UpdateRemoteMetadata that answers a rejected upload by uploading again.
UpdateRemoteMetadataByUploadingAgain(o, file_id) ==
  Issue(o, "DidGetRemoteMetadata", [reply |-> "pending", op |-> "UploadExistingFile", file_id |-> file_id])

UpdateRemoteMetadata(o, file_id) ==
  Issue(o, "DidGetRemoteMetadata", [reply |-> "pending", op |-> "GetFileResource", file_id |-> file_id])

\* DidUpdateDatabaseForUploadExistingFile that takes the returned metadata as
\* it comes.
DidUpdateDatabaseForUploadExistingFileUnchecked(o, status, db) ==
  LET file_id == o.syncer.remote_file_tracker_.tracker_id IN
  IF status # SYNC_STATUS_OK THEN SyncCompleted(o, status)
  ELSE IF file_id \notin DOMAIN o.files THEN SyncCompleted(o, SYNC_STATUS_FAILED)
  ELSE SyncCompleted(
         StoreWrite(o, db, UpdateTracker(o.trackers, file_id, o.files[file_id]),
                    o.files),
         db)

DidUpdateDatabaseForUploadExistingFile(o, status, db) ==
  LET file_id == o.syncer.remote_file_tracker_.tracker_id
      title == o.syncer.target_path_
  IN
  IF status # SYNC_STATUS_OK THEN SyncCompleted(o, status)
  ELSE IF file_id \notin DOMAIN o.files THEN SyncCompleted(o, SYNC_STATUS_FAILED)
  ELSE LET details == o.files[file_id] IN
       IF /\ ~details.missing
          /\ details.file_kind = FILE_KIND_FILE
          /\ details.title = title
          /\ HasFileAsParent(details,
                             o.syncer.remote_parent_folder_tracker_.tracker_id)
       THEN SyncCompleted(
              StoreWrite(o, db, UpdateTracker(o.trackers, file_id, details),
                         o.files),
              db)
       ELSE SyncCompleted(o, SYNC_STATUS_RETRY)

DidUploadExistingFile(o, error, entry, db, db2) ==
  LET file_id == o.syncer.remote_file_tracker_.tracker_id IN
  IF error \in {"HTTP_PRECONDITION", "HTTP_CONFLICT", "HTTP_NOT_FOUND"}
  THEN UpdateRemoteMetadata(
         [o EXCEPT !.syncer.needs_remote_change_listing_ = TRUE, !.ok = FALSE],
         file_id)
  ELSE IF GDataErrorCodeToSyncStatusCode(error) # SYNC_STATUS_OK
  THEN SyncCompleted([o EXCEPT !.ok = FALSE],
                     GDataErrorCodeToSyncStatusCode(error))
  ELSE IF entry = "null"
  THEN SyncCompleted([o EXCEPT !.ok = FALSE], SYNC_STATUS_FAILED)
  ELSE DidUpdateDatabaseForUploadExistingFile(
         StoreWrite(o, db,
                    UpdateByFileResource_trackers(o.trackers, file_id),
                    UpdateByFileResource_files(
                      o.files, file_id,
                      EntryDetails(entry,
                                   o.syncer.remote_file_tracker_.synced_details,
                                   local.md5))),
         db, db2)

DidGetRemoteMetadata(o, error, entry, db) ==
  LET file_id == o.syncer.remote_file_tracker_.tracker_id IN
  IF error = "HTTP_NOT_FOUND"
  THEN CompleteWithRetryStatus(
         StoreWrite([o EXCEPT !.ok = FALSE], db,
                    UpdateByDeletedRemoteFile_trackers(o.trackers, file_id),
                    UpdateByDeletedRemoteFile_files(o.files, file_id)),
         db)
  ELSE IF GDataErrorCodeToSyncStatusCode(error) # SYNC_STATUS_OK
  THEN SyncCompleted([o EXCEPT !.ok = FALSE],
                     GDataErrorCodeToSyncStatusCode(error))
  ELSE IF entry = "null"
  THEN SyncCompleted([o EXCEPT !.ok = FALSE], SYNC_STATUS_FAILED)
  ELSE CompleteWithRetryStatus(
         StoreWrite(o, db,
                    UpdateByFileResource_trackers(o.trackers, file_id),
                    UpdateByFileResource_files(
                      o.files, file_id,
                      EntryDetails(entry, o.files[file_id], o.files[file_id].md5))),
         db)

UploadNewFile(o) ==
  Issue([o EXCEPT !.syncer.sync_action_ = SYNC_ACTION_ADDED],
        "DidUploadNewFile",
        [reply |-> "pending", op |-> "UploadNewFile",
         parent_id |-> o.syncer.remote_parent_folder_tracker_.tracker_id,
         title |-> o.syncer.target_path_])

DidUploadNewFile(o, error, entry, db) ==
  LET o1 == IF error = "HTTP_NOT_FOUND"
            THEN [o EXCEPT !.syncer.needs_remote_change_listing_ = TRUE]
            ELSE o
      status == GDataErrorCodeToSyncStatusCode(error)
      parent_id == o.syncer.remote_parent_folder_tracker_.tracker_id
      details == Details(FALSE, FILE_KIND_FILE, o.syncer.target_path_,
                         parent_id, local.md5)
  IN
  IF status # SYNC_STATUS_OK THEN SyncCompleted([o1 EXCEPT !.ok = FALSE], status)
  ELSE IF entry = "null"
  THEN SyncCompleted([o1 EXCEPT !.ok = FALSE], SYNC_STATUS_FAILED)
  ELSE SyncCompleted(
         StoreWrite([o1 EXCEPT !.next_id = @ + 1], db,
                    ReplaceActiveTrackerWithNewResource(
                      o.trackers, parent_id, o.next_id, details),
                    o.files @@ (o.next_id :> details)),
         db)

CreateRemoteFolder(o) ==
  Issue([o EXCEPT !.syncer.sync_action_ = SYNC_ACTION_ADDED],
        "DidCreateRemoteFolder",
        [reply |-> "pending", op |-> "CreateFolder",
         parent_id |-> o.syncer.remote_parent_folder_tracker_.tracker_id,
         title |-> o.syncer.target_path_])

DidDetachResourceForCreationConflict(o, error) ==
  LET status == GDataErrorCodeToSyncStatusCode(error) IN
  IF status # SYNC_STATUS_OK
  THEN SyncCompleted([o EXCEPT !.ok = FALSE], status)
  ELSE SyncCompleted(o, SYNC_STATUS_RETRY)

\* FolderCreator::Run, as seen from its callback: on success the new folder's
\* metadata and an inactive tracker under the parent are in the store.
FolderCreatorRun(o, error) ==
  LET parent_id == o.syncer.remote_parent_folder_tracker_.tracker_id
      details == Details(FALSE, FILE_KIND_FOLDER, o.syncer.target_path_,
                         parent_id, 0)
  IN
  IF error = "HTTP_SUCCESS"
  THEN [o EXCEPT !.next_id = @ + 1,
                 !.files = @ @@ (o.next_id :> details),
                 !.trackers = @ \cup {NewInactiveTracker(o.next_id, parent_id, details)}]
  ELSE [o EXCEPT !.ok = FALSE]

\* The token is moved into the callback bound for TryActivateTracker.  When
\* the activation is pending the store runs that callback; when it fails the
\* callback is destroyed unrun, the token with it, and the detach is bound
\* with what is left in token: nothing.
DidCreateRemoteFolder(o, file_id, status, db) ==
  LET o1 == IF status = SYNC_FILE_ERROR_NOT_FOUND
            THEN [o EXCEPT !.syncer.needs_remote_change_listing_ = TRUE]
            ELSE o
      parent_id == o.syncer.remote_parent_folder_tracker_.tracker_id
  IN
  IF status # SYNC_STATUS_OK THEN SyncCompleted(o1, status)
  ELSE IF TryActivateTracker_status(o1.trackers, parent_id, file_id)
          = "ACTIVATION_PENDING"
  THEN SyncCompleted(
         StoreWrite(o1, db, TryActivateTracker_trackers(o1.trackers, file_id),
                    o1.files),
         db)
  ELSE Issue([o1 EXCEPT !.syncer.token = "null", !.syncer.dropped = TRUE,
                        !.ok = FALSE],
             "DidDetachResourceForCreationConflict",
             [reply |-> "pending", op |-> "RemoveResourceFromDirectory",
              parent_id |-> parent_id, file_id |-> file_id])

\* HandleConflict that lets a local delete win over the pending remote change.
HandleConflictDeletingForLocalDelete(o, db) ==
  LET file_id == o.syncer.remote_file_tracker_.tracker_id
      title == o.syncer.target_path_
  IN
  IF local_is_missing_ THEN DeleteRemoteFile(o, "SyncCompleted")
  ELSE IF local.file_type = "File" THEN UploadNewFile(o)
  ELSE IF file_id \notin DOMAIN o.files THEN CreateRemoteFolder(o)
  ELSE LET remote_details == o.files[file_id] IN
       IF /\ ~remote_details.missing
          /\ remote_details.file_kind = FILE_KIND_FOLDER
          /\ remote_details.title = title
          /\ HasFileAsParent(remote_details,
                             o.syncer.remote_parent_folder_tracker_.tracker_id)
       THEN SyncCompleted(
              StoreWrite(o, db,
                         UpdateTracker(o.trackers, file_id, remote_details),
                         o.files),
              db)
       ELSE CreateRemoteFolder(o)

\* HandleConflict that never reuses the remote folder of the tracker.
HandleConflictCreatingAlways(o, db) ==
  IF local_is_missing_ THEN SyncCompleted(o, SYNC_STATUS_OK)
  ELSE IF local.file_type = "File" THEN UploadNewFile(o)
  ELSE CreateRemoteFolder(o)

\* HandleConflict that clears the remote object out of the way first, as
\* HandleExistingRemoteFile does for objects of the wrong kind.
HandleConflictDeletingFirst(o, db) ==
  IF local_is_missing_ THEN SyncCompleted(o, SYNC_STATUS_OK)
  ELSE DeleteRemoteFile(o, "CompleteWithRetryStatus")

HandleConflict(o, db) ==
  LET file_id == o.syncer.remote_file_tracker_.tracker_id
      title == o.syncer.target_path_
  IN
  IF local_is_missing_ THEN SyncCompleted(o, SYNC_STATUS_OK)
  ELSE IF local.file_type = "File" THEN UploadNewFile(o)
  ELSE IF file_id \notin DOMAIN o.files THEN CreateRemoteFolder(o)
  ELSE LET remote_details == o.files[file_id] IN
       IF /\ ~remote_details.missing
          /\ remote_details.file_kind = FILE_KIND_FOLDER
          /\ remote_details.title = title
          /\ HasFileAsParent(remote_details,
                             o.syncer.remote_parent_folder_tracker_.tracker_id)
       THEN SyncCompleted(
              StoreWrite(o, db,
                         UpdateTracker(o.trackers, file_id, remote_details),
                         o.files),
              db)
       ELSE CreateRemoteFolder(o)

\* HandleExistingRemoteFile that puts the local object in the place of a
\* remote object of the other kind at once, without clearing the path first.
HandleExistingRemoteFileReplacingAtOnce(o) ==
  LET synced_details == o.syncer.remote_file_tracker_.synced_details IN
  IF local_is_missing_ THEN DeleteRemoteFile(o, "SyncCompleted")
  ELSE IF local.file_type = "File"
  THEN IF synced_details.file_kind = FILE_KIND_FILE
       THEN UploadExistingFile(o)
       ELSE UploadNewFile(o)
  ELSE IF synced_details.file_kind = FILE_KIND_FILE
  THEN CreateRemoteFolder(o)
  ELSE SyncCompleted(o, SYNC_STATUS_OK)

HandleExistingRemoteFile(o) ==
  LET synced_details == o.syncer.remote_file_tracker_.synced_details IN
  IF local_is_missing_ THEN DeleteRemoteFile(o, "SyncCompleted")
  ELSE IF local.file_type = "File"
  THEN IF synced_details.file_kind = FILE_KIND_FILE
       THEN UploadExistingFile(o)
       ELSE DeleteRemoteFile(o, "CompleteWithRetryStatus")
  ELSE IF synced_details.file_kind = FILE_KIND_FILE
  THEN DeleteRemoteFile(o, "CompleteWithRetryStatus")
  ELSE SyncCompleted(o, SYNC_STATUS_OK)

\* RunExclusive that creates the first missing folder under the nearest
\* active ancestor whatever its kind.
RunExclusiveWithAncestorOfAnyKind(o, db, ancestor) ==
  LET active_ancestor_tracker == ancestor.tracker
      active_ancestor_path == ancestor.path
      \* the components of path below active_ancestor_path
      missing_components == local.path - active_ancestor_path
      parent_of_ancestor ==
        FindTrackerByTrackerID(o.trackers,
                               active_ancestor_tracker.parent_tracker_id)
  IN
  IF missing_components > 0 /\ local_is_missing_
  THEN TaskDone(o, SYNC_STATUS_OK)
  ELSE IF missing_components > 1
  THEN CreateRemoteFolder(
         [o EXCEPT !.syncer.remote_parent_folder_tracker_ =
                     active_ancestor_tracker,
                   !.syncer.target_path_ = active_ancestor_path + 1])
  ELSE IF missing_components = 0
  THEN LET o1 == [o EXCEPT !.syncer.remote_parent_folder_tracker_ =
                             parent_of_ancestor,
                           !.syncer.remote_file_tracker_ =
                             active_ancestor_tracker,
                           !.syncer.target_path_ = local.path]
       IN IF active_ancestor_tracker.dirty
          THEN HandleConflict(o1, db)
          ELSE HandleExistingRemoteFile(o1)
  ELSE LET o1 == [o EXCEPT !.syncer.remote_parent_folder_tracker_ =
                             active_ancestor_tracker,
                           !.syncer.target_path_ = local.path]
       IN IF local.file_type = "File"
          THEN UploadNewFile(o1)
          ELSE CreateRemoteFolder(o1)

\* RunExclusive once the nearest active ancestor is known: the missing
\* components decide between creating a parent, clearing the path, syncing to
\* the object at the path and adding a new one.
RunExclusiveWithAncestor(o, db, ancestor) ==
  LET active_ancestor_tracker == ancestor.tracker
      active_ancestor_path == ancestor.path
      \* the components of path below active_ancestor_path
      missing_components == local.path - active_ancestor_path
      parent_of_ancestor ==
        FindTrackerByTrackerID(o.trackers,
                               active_ancestor_tracker.parent_tracker_id)
  IN
  IF missing_components > 0 /\ local_is_missing_
  THEN TaskDone(o, SYNC_STATUS_OK)
  ELSE IF missing_components > 1
  THEN IF active_ancestor_tracker.synced_details.file_kind = FILE_KIND_FOLDER
       THEN CreateRemoteFolder(
              [o EXCEPT !.syncer.remote_parent_folder_tracker_ =
                          active_ancestor_tracker,
                        !.syncer.target_path_ = active_ancestor_path + 1])
       ELSE DeleteRemoteFile(
              [o EXCEPT !.syncer.remote_parent_folder_tracker_ =
                          parent_of_ancestor,
                        !.syncer.remote_file_tracker_ = active_ancestor_tracker,
                        !.syncer.target_path_ = active_ancestor_path],
              "CompleteWithRetryStatus")
  ELSE IF missing_components = 0
  THEN LET o1 == [o EXCEPT !.syncer.remote_parent_folder_tracker_ =
                             parent_of_ancestor,
                           !.syncer.remote_file_tracker_ =
                             active_ancestor_tracker,
                           !.syncer.target_path_ = local.path]
       IN IF active_ancestor_tracker.dirty
          THEN HandleConflict(o1, db)
          ELSE HandleExistingRemoteFile(o1)
  ELSE LET o1 == [o EXCEPT !.syncer.remote_parent_folder_tracker_ =
                             active_ancestor_tracker,
                           !.syncer.target_path_ = local.path]
       IN IF local.file_type = "File"
          THEN UploadNewFile(o1)
          ELSE CreateRemoteFolder(o1)

\* RunExclusive that takes a stray change through the store like any other.
RunExclusiveWithoutStrayCheck(o, db) ==
  LET ancestor == FindNearestActiveAncestor(o.trackers, local.path) IN
  IF ~context_ready THEN TaskDone(o, SYNC_STATUS_FAILED)
  ELSE IF ~ancestor.found THEN TaskDone(o, SYNC_STATUS_UNKNOWN_ORIGIN)
  ELSE RunExclusiveWithAncestor(o, db, ancestor)

\* RunExclusive with the registration of the app looked up before the stray
\* file is let go.
RunExclusiveRootFirst(o, db) ==
  LET ancestor == FindNearestActiveAncestor(o.trackers, local.path) IN
  IF ~context_ready THEN TaskDone(o, SYNC_STATUS_FAILED)
  ELSE IF ~ancestor.found THEN TaskDone(o, SYNC_STATUS_UNKNOWN_ORIGIN)
  ELSE IF local_is_missing_ /\ local.change # "Delete"
  THEN TaskDone(o, SYNC_STATUS_OK)
  ELSE RunExclusiveWithAncestor(o, db, ancestor)

RunExclusive(o, db) ==
  LET ancestor == FindNearestActiveAncestor(o.trackers, local.path) IN
  IF ~context_ready THEN TaskDone(o, SYNC_STATUS_FAILED)
  ELSE IF local_is_missing_ /\ local.change # "Delete"
  THEN TaskDone(o, SYNC_STATUS_OK)
  ELSE IF ~ancestor.found THEN TaskDone(o, SYNC_STATUS_UNKNOWN_ORIGIN)
  ELSE RunExclusiveWithAncestor(o, db, ancestor)

-----------------------------------------------------------------------------
(* SyncTaskManager and the SyncEngine callbacks *)

Task(kind, priority) == [kind |-> kind, priority |-> priority, exclusive |-> TRUE]

NoTask == Task("None", "LOW")

PriorityRank(priority) ==
  CASE priority = "HIGH" -> 2 [] priority = "MED" -> 1 [] OTHER -> 0

\* Admission in order of arrival, whatever the priorities.
NextTaskIndexInOrderOfArrival(queue) == 1

\* The queued task admitted next: the highest priority, first in first out.
NextTaskIndex(queue) ==
  CHOOSE i \in 1..Len(queue) :
    \A j \in 1..Len(queue) :
      \/ PriorityRank(queue[j].priority) < PriorityRank(queue[i].priority)
      \/ PriorityRank(queue[j].priority) = PriorityRank(queue[i].priority) /\ i <= j

RemoveAt(queue, i) == SubSeq(queue, 1, i - 1) \o SubSeq(queue, i + 1, Len(queue))

\* UpdateBlockingFactor: a task that does not ask for exclusive access moves
\* to the background when the allowance has room for it.
RunsInBackground(exclusive) ==
  ~exclusive /\ Len(running_background_task_) < MaxBackgroundTask

\* The tasks that have been admitted and have not reported yet.
RunningTasks ==
  (IF running_task_ = NoTask THEN 0 ELSE 1) + Len(running_background_task_)

\* LocalToRemoteSyncer::RunPreflight asks for exclusive access.
RunPreflightExclusive == TRUE

\* SyncEngine::GetMetadataDatabase()->HasDirtyTracker and CountDirtyTracker.
CountDirtyTracker(ts) == Cardinality({t \in ts : t.dirty})

HasDirtyTracker(ts) == CountDirtyTracker(ts) > 0

\* The engine's fields and the scheduler's lanes as a handler finds them;
\* "log" collects the calls of the step, in the order they are made.
Engine ==
  [service_state_ |-> service_state_,
   sync_enabled_ |-> sync_enabled_,
   network_available_ |-> network_available_,
   should_check_remote_change_ |-> should_check_remote_change_,
   should_check_conflict_ |-> should_check_conflict_,
   listing_remote_changes_ |-> listing_remote_changes_,
   time_to_check_changes_ |-> time_to_check_changes_,
   metadata_database |-> context_ready,
   pending_tasks_ |-> pending_tasks_,
   running_task_ |-> running_task_,
   log |-> <<>>]

\* One call of a step: the scheduler's NotifyLastOperationStatus (or its
\* DidProcessRemoteChange with the syncer it passes), or a call
\* the engine made (an observer's method, HasRefreshToken with its answer,
\* RegisterOrigin, the caller's callback), with its arguments.
Call(to, arg) == [to |-> to, arg |-> arg]

Log(e, to, arg) == [e EXCEPT !.log = Append(@, Call(to, arg))]

\* What the service-state observers are told.
StateUpdate(state, description) == [state |-> state, description |-> description]

\* The state a handler of the engine leaves behind.
Commit(e) ==
  /\ service_state_' = e.service_state_
  /\ sync_enabled_' = e.sync_enabled_
  /\ network_available_' = e.network_available_
  /\ should_check_remote_change_' = e.should_check_remote_change_
  /\ should_check_conflict_' = e.should_check_conflict_
  /\ listing_remote_changes_' = e.listing_remote_changes_
  /\ time_to_check_changes_' = e.time_to_check_changes_
  /\ pending_tasks_' = e.pending_tasks_
  /\ running_task_' = e.running_task_
  /\ log' = e.log

\* GetCurrentState answering with the stored state whether or not sync is
\* enabled.
GetCurrentStateOfServiceOnly(e) == e.service_state_

\* SyncEngine::GetCurrentState.
GetCurrentState(e) ==
  IF ~e.sync_enabled_ THEN REMOTE_SERVICE_DISABLED ELSE e.service_state_

\* UpdateServiceState telling the observers of every call.
UpdateServiceStateAlways(e, state, description) ==
  LET updated == [e EXCEPT !.service_state_ = state]
  IN Log(updated, "OnRemoteServiceStateUpdated",
         StateUpdate(GetCurrentState(updated), description))

\* UpdateServiceState comparing the stored states, not what GetCurrentState
\* returns.
UpdateServiceStateComparingStoredStates(e, state, description) ==
  LET updated == [e EXCEPT !.service_state_ = state]
  IN IF e.service_state_ = state
     THEN updated
     ELSE Log(updated, "OnRemoteServiceStateUpdated",
              StateUpdate(GetCurrentState(updated), description))

\* SyncEngine::UpdateServiceState.
UpdateServiceState(e, state, description) ==
  LET updated == [e EXCEPT !.service_state_ = state]
  IN IF GetCurrentState(e) = GetCurrentState(updated)
     THEN updated
     ELSE Log(updated, "OnRemoteServiceStateUpdated",
              StateUpdate(GetCurrentState(updated), description))

\* SyncEngine::SetSyncEnabled.
SetSyncEnabled(e, enabled) ==
  LET updated == [e EXCEPT !.sync_enabled_ = enabled]
  IN IF e.sync_enabled_ = enabled THEN e
     ELSE IF GetCurrentState(e) = GetCurrentState(updated) THEN updated
     ELSE Log(updated, "OnRemoteServiceStateUpdated",
              StateUpdate(GetCurrentState(updated),
                          IF enabled THEN "Sync is enabled"
                          ELSE "Sync is disabled"))

\* The status-to-state function taking every Ok for proof of the service,
\* whether or not the task used the network.
UpdateServiceStateFromSyncStatusCodeOnAnyOk(e, status, used_network, has_refresh_token) ==
  CASE status = SYNC_STATUS_OK -> UpdateServiceState(e, REMOTE_SERVICE_OK, "")
    [] status \in {SYNC_STATUS_AUTHENTICATION_FAILED,
                   SYNC_STATUS_ACCESS_FORBIDDEN} ->
         UpdateServiceState(e, REMOTE_SERVICE_AUTHENTICATION_REQUIRED,
                            "Authentication required")
    [] status \in {SYNC_STATUS_SERVICE_TEMPORARILY_UNAVAILABLE,
                   SYNC_STATUS_NETWORK_ERROR, SYNC_STATUS_ABORT,
                   SYNC_STATUS_FAILED} ->
         LET asked == Log(e, "HasRefreshToken", [answer |-> has_refresh_token])
         IN IF has_refresh_token
            THEN UpdateServiceState(asked, REMOTE_SERVICE_TEMPORARY_UNAVAILABLE,
                                    "Network or temporary service error.")
            ELSE UpdateServiceState(asked, REMOTE_SERVICE_AUTHENTICATION_REQUIRED,
                                    "Authentication required")
    [] status \in {SYNC_DATABASE_ERROR_CORRUPTION, SYNC_DATABASE_ERROR_IO_ERROR,
                   SYNC_DATABASE_ERROR_FAILED} ->
         UpdateServiceState(e, REMOTE_SERVICE_DISABLED,
                            "Unrecoverable database error")
    [] OTHER -> e

\* The status-to-state function with the database errors taken for
\* recoverable ones.
UpdateServiceStateFromSyncStatusCodeForgiving(e, status, used_network, has_refresh_token) ==
  CASE status = SYNC_STATUS_OK ->
         IF used_network THEN UpdateServiceState(e, REMOTE_SERVICE_OK, "")
         ELSE e
    [] status \in {SYNC_STATUS_AUTHENTICATION_FAILED,
                   SYNC_STATUS_ACCESS_FORBIDDEN} ->
         UpdateServiceState(e, REMOTE_SERVICE_AUTHENTICATION_REQUIRED,
                            "Authentication required")
    [] status \in {SYNC_STATUS_SERVICE_TEMPORARILY_UNAVAILABLE,
                   SYNC_STATUS_NETWORK_ERROR, SYNC_STATUS_ABORT,
                   SYNC_STATUS_FAILED, SYNC_DATABASE_ERROR_CORRUPTION,
                   SYNC_DATABASE_ERROR_IO_ERROR, SYNC_DATABASE_ERROR_FAILED} ->
         LET asked == Log(e, "HasRefreshToken", [answer |-> has_refresh_token])
         IN IF has_refresh_token
            THEN UpdateServiceState(asked, REMOTE_SERVICE_TEMPORARY_UNAVAILABLE,
                                    "Network or temporary service error.")
            ELSE UpdateServiceState(asked, REMOTE_SERVICE_AUTHENTICATION_REQUIRED,
                                    "Authentication required")
    [] OTHER -> e

\* SyncEngine::UpdateServiceStateFromSyncStatusCode; has_refresh_token is
\* what GetDriveService()->HasRefreshToken() answers.
UpdateServiceStateFromSyncStatusCode(e, status, used_network, has_refresh_token) ==
  CASE status = SYNC_STATUS_OK ->
         IF used_network THEN UpdateServiceState(e, REMOTE_SERVICE_OK, "")
         ELSE e
    [] status = SYNC_STATUS_AUTHENTICATION_FAILED ->
         UpdateServiceState(e, REMOTE_SERVICE_AUTHENTICATION_REQUIRED,
                            "Authentication required")
    [] status = SYNC_STATUS_ACCESS_FORBIDDEN ->
         UpdateServiceState(e, REMOTE_SERVICE_AUTHENTICATION_REQUIRED,
                            "Access forbidden")
    [] status \in {SYNC_STATUS_SERVICE_TEMPORARILY_UNAVAILABLE,
                   SYNC_STATUS_NETWORK_ERROR, SYNC_STATUS_ABORT,
                   SYNC_STATUS_FAILED} ->
         LET asked == Log(e, "HasRefreshToken", [answer |-> has_refresh_token])
         IN IF has_refresh_token
            THEN UpdateServiceState(asked, REMOTE_SERVICE_TEMPORARY_UNAVAILABLE,
                                    "Network or temporary service error.")
            ELSE UpdateServiceState(asked, REMOTE_SERVICE_AUTHENTICATION_REQUIRED,
                                    "Authentication required")
    [] status \in {SYNC_DATABASE_ERROR_CORRUPTION, SYNC_DATABASE_ERROR_IO_ERROR,
                   SYNC_DATABASE_ERROR_FAILED} ->
         UpdateServiceState(e, REMOTE_SERVICE_DISABLED,
                            "Unrecoverable database error")
    [] OTHER -> e

\* The answers of HasRefreshToken that matter to a report of the status: the
\* token is asked for on the recoverable errors, and by RegisterOrigin.
RefreshTokenAnswers(status) ==
  IF status \in {SYNC_STATUS_SERVICE_TEMPORARILY_UNAVAILABLE,
                 SYNC_STATUS_NETWORK_ERROR, SYNC_STATUS_ABORT,
                 SYNC_STATUS_FAILED, SYNC_STATUS_UNKNOWN_ORIGIN}
  THEN BOOLEAN ELSE {TRUE}

\* The values of used_network that matter to a report of the status: the
\* flag is read for SYNC_STATUS_OK only.
NetworkUses(status) == IF status = SYNC_STATUS_OK THEN BOOLEAN ELSE {FALSE}

\* SyncEngine::NotifyLastOperationStatus, called by the scheduler with the
\* status a task reported and whether the task used the network.
NotifyLastOperationStatus(e, status, used_network, has_refresh_token) ==
  LET told == Log(e, "NotifyLastOperationStatus",
                  [status |-> status, used_network |-> used_network])
      updated == UpdateServiceStateFromSyncStatusCode(
                   told, status, used_network, has_refresh_token)
  IN IF updated.metadata_database
     THEN Log(updated, "OnRemoteChangeQueueUpdated",
              [pending_changes |-> CountDirtyTracker(trackers)])
     ELSE updated

\* SyncTaskManager::ScheduleSyncTask.
ScheduleSyncTask(e, kind, priority) ==
  [e EXCEPT !.pending_tasks_ = Append(@, Task(kind, priority))]

\* SyncTaskManager::ScheduleSyncTaskIfIdle admits the task only when no task
\* is running, and tells whether it did.
IsIdle(e) == e.running_task_ = NoTask /\ running_background_task_ = <<>>

ScheduleSyncTaskIfIdle(e, kind) ==
  IF IsIdle(e) THEN [e EXCEPT !.running_task_ = Task(kind, "LOW")] ELSE e

\* SyncEngine::PostInitializeTask.
PostInitializeTask(e) == ScheduleSyncTask(e, "SyncEngineInitializer", "HIGH")

\* RegisterAppTask::CanFinishImmediately: the application's root is known.
CanFinishImmediately == ActiveTrackersAt(trackers, 0, 0) # {}

\* SyncEngine::RegisterOrigin.
RegisterOrigin(e, has_refresh_token) ==
  LET called == Log(e, "RegisterOrigin", <<>>)
      init == IF ~e.metadata_database /\ has_refresh_token
              THEN PostInitializeTask(called) ELSE called
  IN IF CanFinishImmediately
     THEN Log(init, "RegisterOrigin.callback", [status |-> SYNC_STATUS_OK])
     ELSE ScheduleSyncTask(init, "RegisterAppTask", "HIGH")

\* MaybeStartFetchChanges offering a Conflict Resolver whether or not a
\* tracker is dirty.
MaybeStartFetchChangesWithBacklog(e, t) ==
  IF GetCurrentState(e) = REMOTE_SERVICE_DISABLED THEN e
  ELSE IF ~e.metadata_database THEN e
  ELSE IF e.listing_remote_changes_ THEN e
  ELSE IF ~e.should_check_remote_change_ /\ t < e.time_to_check_changes_
  THEN IF e.should_check_conflict_
       THEN ScheduleSyncTaskIfIdle([e EXCEPT !.should_check_conflict_ = FALSE],
                                   "ConflictResolver")
       ELSE e
  ELSE IF IsIdle(e)
  THEN [ScheduleSyncTaskIfIdle(e, "ListChangesTask")
          EXCEPT !.should_check_remote_change_ = FALSE,
                 !.listing_remote_changes_ = TRUE,
                 !.time_to_check_changes_ = t + kListChangesRetryDelaySeconds]
  ELSE e

\* MaybeStartFetchChanges without the look at listing_remote_changes_.
MaybeStartFetchChangesWhileListing(e, t) ==
  IF GetCurrentState(e) = REMOTE_SERVICE_DISABLED THEN e
  ELSE IF ~e.metadata_database THEN e
  ELSE IF ~e.should_check_remote_change_ /\ t < e.time_to_check_changes_
  THEN IF ~HasDirtyTracker(trackers) /\ e.should_check_conflict_
       THEN ScheduleSyncTaskIfIdle([e EXCEPT !.should_check_conflict_ = FALSE],
                                   "ConflictResolver")
       ELSE e
  ELSE IF IsIdle(e)
  THEN [ScheduleSyncTaskIfIdle(e, "ListChangesTask")
          EXCEPT !.should_check_remote_change_ = FALSE,
                 !.listing_remote_changes_ = TRUE,
                 !.time_to_check_changes_ = t + kListChangesRetryDelaySeconds]
  ELSE e

\* MaybeStartFetchChanges listing whenever no listing is in flight.
MaybeStartFetchChangesAtAnyTime(e, t) ==
  IF GetCurrentState(e) = REMOTE_SERVICE_DISABLED THEN e
  ELSE IF ~e.metadata_database THEN e
  ELSE IF e.listing_remote_changes_ THEN e
  ELSE IF IsIdle(e)
  THEN [ScheduleSyncTaskIfIdle(e, "ListChangesTask")
          EXCEPT !.should_check_remote_change_ = FALSE,
                 !.listing_remote_changes_ = TRUE,
                 !.time_to_check_changes_ = t + kListChangesRetryDelaySeconds]
  ELSE e

\* SyncEngine::MaybeStartFetchChanges at time t.
MaybeStartFetchChanges(e, t) ==
  IF GetCurrentState(e) = REMOTE_SERVICE_DISABLED THEN e
  ELSE IF ~e.metadata_database THEN e
  ELSE IF e.listing_remote_changes_ THEN e
  ELSE IF ~e.should_check_remote_change_ /\ t < e.time_to_check_changes_
  THEN IF ~HasDirtyTracker(trackers) /\ e.should_check_conflict_
       THEN ScheduleSyncTaskIfIdle([e EXCEPT !.should_check_conflict_ = FALSE],
                                   "ConflictResolver")
       ELSE e
  ELSE IF IsIdle(e)
  THEN [ScheduleSyncTaskIfIdle(e, "ListChangesTask")
          EXCEPT !.should_check_remote_change_ = FALSE,
                 !.listing_remote_changes_ = TRUE,
                 !.time_to_check_changes_ = t + kListChangesRetryDelaySeconds]
  ELSE e

\* SyncEngine::MaybeScheduleNextTask.
MaybeScheduleNextTask(e, t) ==
  IF GetCurrentState(e) = REMOTE_SERVICE_DISABLED THEN e
  ELSE MaybeStartFetchChanges(e, t)

\* OnNotificationReceived taking a push notification for proof of the
\* service whatever the state was.
OnNotificationReceivedFromAnyState(e, t) ==
  MaybeScheduleNextTask(
    [UpdateServiceState(e, REMOTE_SERVICE_OK, "Got push notification for Drive.")
       EXCEPT !.should_check_remote_change_ = TRUE], t)

\* SyncEngine::OnNotificationReceived.
OnNotificationReceived(e, t) ==
  LET updated == IF e.service_state_ = REMOTE_SERVICE_TEMPORARY_UNAVAILABLE
                 THEN UpdateServiceState(e, REMOTE_SERVICE_OK,
                                         "Got push notification for Drive.")
                 ELSE e
  IN MaybeScheduleNextTask(
       [updated EXCEPT !.should_check_remote_change_ = TRUE], t)

\* SyncEngine::OnReadyToSendRequests; the engine was created for a browser
\* context, so it has a sign-in manager.
OnReadyToSendRequests(e, t) ==
  LET updated == UpdateServiceState(e, REMOTE_SERVICE_OK, "Authenticated")
  IN IF e.service_state_ = REMOTE_SERVICE_OK THEN e
     ELSE IF ~updated.metadata_database
     THEN PostInitializeTask(updated)
     ELSE MaybeScheduleNextTask(
            [updated EXCEPT !.should_check_remote_change_ = TRUE], t)

\* SyncEngine::OnRefreshTokenInvalid.
OnRefreshTokenInvalid(e) ==
  UpdateServiceState(e, REMOTE_SERVICE_AUTHENTICATION_REQUIRED,
                     "Found invalid refresh token.")

\* SyncEngine::OnNetworkChanged; connected tells the type is not
\* CONNECTION_NONE.
OnNetworkChanged(e, connected, t) ==
  LET updated ==
        IF e.network_available_ /\ ~connected
        THEN UpdateServiceState(e, REMOTE_SERVICE_TEMPORARY_UNAVAILABLE,
                                "Disconnected")
        ELSE IF ~e.network_available_ /\ connected
        THEN MaybeStartFetchChanges(
               [UpdateServiceState(e, REMOTE_SERVICE_OK, "Connected")
                  EXCEPT !.should_check_remote_change_ = TRUE], t)
        ELSE e
  IN [updated EXCEPT !.network_available_ = connected]

\* SyncEngine::DidInitialize, without the database it installs on success.
DidInitialize(e, status, has_refresh_token) ==
  IF status # SYNC_STATUS_OK
  THEN IF has_refresh_token
       THEN UpdateServiceState(e, REMOTE_SERVICE_TEMPORARY_UNAVAILABLE,
                               "Could not initialize remote service")
       ELSE UpdateServiceState(e, REMOTE_SERVICE_AUTHENTICATION_REQUIRED,
                               "Authentication required.")
  ELSE e

\* DidFetchChanges that keeps the listing flag after a listing that failed.
DidFetchChangesClearingOnOk(e, status) ==
  [e EXCEPT !.should_check_conflict_ = (@ \/ status = SYNC_STATUS_OK),
            !.listing_remote_changes_ = (@ /\ status # SYNC_STATUS_OK)]

\* SyncEngine::DidFetchChanges.
DidFetchChanges(e, status) ==
  [e EXCEPT !.should_check_conflict_ = (@ \/ status = SYNC_STATUS_OK),
            !.listing_remote_changes_ = FALSE]

\* SyncEngine::DidResolveConflict.
DidResolveConflict(e, status) ==
  [e EXCEPT !.should_check_conflict_ = (@ \/ status = SYNC_STATUS_OK)]

\* DidApplyLocalChange telling the file-status observers of every run.
DidApplyLocalChangeNotifyingAlways(e, s, status, has_refresh_token, t) ==
  LET e1 == Log(e, "OnFileStatusChanged", [sync_action |-> s.sync_action_])
      e2 == IF status = SYNC_STATUS_UNKNOWN_ORIGIN /\ s.url_is_valid
            THEN RegisterOrigin(e1, has_refresh_token)
            ELSE e1
      e3 == IF s.needs_remote_change_listing_ /\ ~e2.listing_remote_changes_
            THEN [ScheduleSyncTask(e2, "ListChangesTask", "HIGH")
                    EXCEPT !.should_check_remote_change_ = FALSE,
                           !.listing_remote_changes_ = TRUE,
                           !.time_to_check_changes_ =
                              t + kListChangesRetryDelaySeconds]
            ELSE e2
      e4 == IF status = SYNC_STATUS_OK
            THEN [e3 EXCEPT !.should_check_conflict_ = TRUE]
            ELSE e3
  IN Log(e4, "callback", [status |-> status])

\* DidApplyLocalChange running the caller's callback before anything else.
DidApplyLocalChangeCallbackFirst(e, s, status, has_refresh_token, t) ==
  LET notify == /\ status \in {SYNC_STATUS_OK, SYNC_STATUS_RETRY}
                /\ s.url_is_valid
                /\ s.sync_action_ # SYNC_ACTION_NONE
      e0 == Log(e, "callback", [status |-> status])
      e1 == IF notify
            THEN Log(e0, "OnFileStatusChanged", [sync_action |-> s.sync_action_])
            ELSE e0
      e2 == IF status = SYNC_STATUS_UNKNOWN_ORIGIN /\ s.url_is_valid
            THEN RegisterOrigin(e1, has_refresh_token)
            ELSE e1
      e3 == IF s.needs_remote_change_listing_ /\ ~e2.listing_remote_changes_
            THEN [ScheduleSyncTask(e2, "ListChangesTask", "HIGH")
                    EXCEPT !.should_check_remote_change_ = FALSE,
                           !.listing_remote_changes_ = TRUE,
                           !.time_to_check_changes_ =
                              t + kListChangesRetryDelaySeconds]
            ELSE e2
  IN IF status = SYNC_STATUS_OK
     THEN [e3 EXCEPT !.should_check_conflict_ = TRUE]
     ELSE e3

\* SyncEngine::DidApplyLocalChange, run by the scheduler with the status the
\* syncer s reported, at time t.
DidApplyLocalChange(e, s, status, has_refresh_token, t) ==
  LET notify == /\ status \in {SYNC_STATUS_OK, SYNC_STATUS_RETRY}
                /\ s.url_is_valid
                /\ s.sync_action_ # SYNC_ACTION_NONE
      e1 == IF notify
            THEN Log(e, "OnFileStatusChanged", [sync_action |-> s.sync_action_])
            ELSE e
      e2 == IF status = SYNC_STATUS_UNKNOWN_ORIGIN /\ s.url_is_valid
            THEN RegisterOrigin(e1, has_refresh_token)
            ELSE e1
      e3 == IF s.needs_remote_change_listing_ /\ ~e2.listing_remote_changes_
            THEN [ScheduleSyncTask(e2, "ListChangesTask", "HIGH")
                    EXCEPT !.should_check_remote_change_ = FALSE,
                           !.listing_remote_changes_ = TRUE,
                           !.time_to_check_changes_ =
                              t + kListChangesRetryDelaySeconds]
            ELSE e2
      e4 == IF status = SYNC_STATUS_OK
            THEN [e3 EXCEPT !.should_check_conflict_ = TRUE]
            ELSE e3
  IN Log(e4, "callback", [status |-> status])

\* The calls of one kind among those a handler made.
CallsTo(calls, to) == SelectSeq(calls, LAMBDA c : c.to = to)

\* SyncTaskManager::NotifyTaskDone.  Called with a token that was moved away
\* it dereferences a null pointer: the process dies, or the call is lost.
\* Otherwise the lane is freed and the task's callback, DidApplyLocalChange,
\* is run; what the report does to the engine's service state is followed
\* under EngineSpec.
NotifyTaskDone(o, status) ==
  IF o.syncer.token # "valid"
  THEN /\ \E outcome \in {"crashed", "lost"} :
            syncer' = [o.syncer EXCEPT !.pc = outcome]
       /\ log' = <<>>
       /\ UNCHANGED <<sched_vars, engine_vars>>
  ELSE /\ syncer' = [o.syncer EXCEPT !.pc = "done", !.token = "returned",
                                     !.notified = @ + 1]
       /\ UNCHANGED running_background_task_
       /\ \E has_refresh_token \in RefreshTokenAnswers(status) :
            LET e == DidApplyLocalChange(
                       [Engine EXCEPT !.running_task_ = NoTask],
                       o.syncer, status, has_refresh_token, now)
            IN
            /\ Commit(e)
            /\ completed' = completed + 1
            /\ last' = [status |-> status,
                        sync_action |-> o.syncer.sync_action_,
                        target_path |-> o.syncer.target_path_,
                        calls |-> o.calls,
                        file_status_notified |->
                          CallsTo(e.log, "OnFileStatusChanged") # <<>>,
                        needs_remote_change_listing |->
                          o.syncer.needs_remote_change_listing_,
                        used_network |-> o.syncer.used_network]

\* The state a handler leaves behind.
Apply(o) ==
  /\ trackers' = o.trackers
  /\ files' = o.files
  /\ next_id' = o.next_id
  /\ remote_calls' = o.calls
  /\ hist' = [hist EXCEPT !.all_ok = @ /\ o.ok]
  /\ IF o.done
     THEN NotifyTaskDone(o, o.status)
     ELSE /\ syncer' = o.syncer
          /\ log' = <<>>
          /\ UNCHANGED <<sched_vars, engine_vars>>
  /\ UNCHANGED <<local, processor, now, context_ready, applies>>

-----------------------------------------------------------------------------
(* Initial states *)

\* The local changes ApplyLocalChange is called with.  The constructor asserts
\* that a change of a file that is there carries the file's own type.
LocalChanges ==
  {c \in [change : {"AddOrUpdate", "Delete"},
          file_type : {"File", "Directory"},
          metadata_type : {"File", "Directory", "Unknown"},
          path : 1..MaxDepth,
          md5 : {0, 1, 2},
          url_is_valid : {TRUE}] :
     /\ IsLocalFileMissing(c.metadata_type, c.change)
          \/ c.file_type = c.metadata_type
     /\ c.md5 # 0 <=> /\ c.change = "AddOrUpdate"
                      /\ c.file_type = "File"
                      /\ c.metadata_type = "File"}

RootDetails == Details(FALSE, FILE_KIND_FOLDER, 0, 0, 0)

\* The tracker of the path of depth components: its id is depth + 1, its
\* parent the tracker of depth - 1 (none for the root).
ChainTracker(depth, kind, dirty) ==
  Tracker(depth + 1, depth, TRUE, dirty,
          Details(FALSE, kind, depth, depth,
                  IF kind = FILE_KIND_FILE THEN 1 ELSE 0))

\* What the remote metadata of a dirty tracker can have become.
DirtyRemoteDetails(details) ==
  {[details EXCEPT !.md5 = IF details.file_kind = FILE_KIND_FILE THEN 3 ELSE 0],
   [details EXCEPT !.title = -1],
   [details EXCEPT !.parent = -1],
   [details EXCEPT !.missing = TRUE],
   [details EXCEPT !.file_kind = IF @ = FILE_KIND_FILE
                                 THEN FILE_KIND_FOLDER ELSE FILE_KIND_FILE]}

\* A registered scope whose root has a chain of depth active trackers below
\* it: folders, then one tracker of kind, clean or dirty.
ChainStore(depth, kind, dirty, remote) ==
  [trackers |->
     {ChainTracker(d, IF d = depth /\ d > 0 THEN kind ELSE FILE_KIND_FOLDER,
                   d = depth /\ d > 0 /\ dirty) : d \in 0..depth},
   files |->
     [id \in 1..(depth + 1) |->
        IF id = depth + 1 /\ depth > 0
        THEN IF dirty THEN remote
             ELSE ChainTracker(depth, kind, FALSE).synced_details
        ELSE ChainTracker(id - 1, FILE_KIND_FOLDER, FALSE).synced_details],
   next_id |-> depth + 2]

EmptyStore == [trackers |-> {}, files |-> [id \in {} |-> RootDetails], next_id |-> 2]

InitStores ==
  {EmptyStore, ChainStore(0, FILE_KIND_FOLDER, FALSE, RootDetails)}
  \cup {ChainStore(depth, kind, FALSE, RootDetails) :
          depth \in 1..MaxDepth, kind \in {FILE_KIND_FILE, FILE_KIND_FOLDER}}
  \cup UNION {
         {ChainStore(depth, kind, TRUE, remote) :
            remote \in DirtyRemoteDetails(
                         ChainTracker(depth, kind, TRUE).synced_details)} :
         depth \in 1..MaxDepth, kind \in {FILE_KIND_FILE, FILE_KIND_FOLDER}}

Init ==
  /\ \E store \in InitStores, ready \in BOOLEAN :
       /\ ~ready => store = EmptyStore
       /\ trackers = store.trackers
       /\ files = store.files
       /\ next_id = store.next_id
       /\ context_ready = ready
       /\ hist = [all_ok |-> TRUE, raced |-> FALSE,
                  init_trackers |-> store.trackers]
  /\ local \in LocalChanges
  /\ syncer = NewSyncer
  /\ processor = NewProcessor
  /\ remote_calls = <<>>
  /\ pending_tasks_ = <<>>
  /\ running_task_ = NoTask
  /\ running_background_task_ = <<>>
  /\ listing_remote_changes_ = FALSE
  /\ service_state_ = REMOTE_SERVICE_TEMPORARY_UNAVAILABLE
  /\ sync_enabled_ = FALSE
  /\ network_available_ = FALSE
  /\ should_check_remote_change_ = TRUE
  /\ should_check_conflict_ = TRUE
  /\ time_to_check_changes_ = 0
  /\ now = 0
  /\ log = <<>>
  /\ applies = 0
  /\ completed = 0
  /\ last = [status |-> "none", sync_action |-> SYNC_ACTION_NONE,
             target_path |-> 0, calls |-> <<>>,
             file_status_notified |-> FALSE,
             needs_remote_change_listing |-> FALSE, used_network |-> FALSE]

-----------------------------------------------------------------------------
(* Actions *)

\* SyncEngine::ApplyLocalChange: a syncer for the change is queued at MED.
ApplyLocalChange ==
  /\ applies < MaxApplies
  /\ applies' = applies + 1
  /\ pending_tasks_' = Append(pending_tasks_, Task("LocalToRemoteSyncer", "MED"))
  /\ log' = <<>>
  /\ UNCHANGED <<store_vars, local, processor, now, context_ready, syncer, remote_calls,
                 running_task_, running_background_task_, engine_vars, hist>>

\* The scheduler admits the next queued task and runs its preflight, which
\* declares the task's blocking factor.
StartNextTask ==
  /\ running_task_ = NoTask
  /\ pending_tasks_ # <<>>
  /\ LET i == NextTaskIndex(pending_tasks_)
         t == pending_tasks_[i]
     IN
     /\ pending_tasks_' = RemoveAt(pending_tasks_, i)
     /\ \E exclusive \in BOOLEAN :
          /\ t.kind = "LocalToRemoteSyncer" => exclusive = RunPreflightExclusive
          /\ running_task_' =
               IF RunsInBackground(exclusive) THEN NoTask
               ELSE [t EXCEPT !.exclusive = exclusive]
          /\ running_background_task_' =
               IF RunsInBackground(exclusive)
               THEN Append(running_background_task_,
                           [t EXCEPT !.exclusive = exclusive])
               ELSE running_background_task_
     /\ IF t.kind = "LocalToRemoteSyncer"
        THEN /\ syncer' = [NewSyncer EXCEPT !.pc = "RunExclusive",
                                            !.token = "valid"]
             /\ remote_calls' = <<>>
        ELSE UNCHANGED <<syncer, remote_calls>>
  /\ log' = <<>>
  /\ UNCHANGED <<store_vars, local, processor, now, context_ready, engine_vars, applies,
                 hist>>

\* The statuses and network use a peer task reports with.
PeerTaskKinds ==
  {"RegisterAppTask", "ListChangesTask", "ConflictResolver",
   "SyncEngineInitializer"}

\* The callback the engine bound to a peer task when it scheduled it.
PeerTaskCallback(e, kind, status, has_refresh_token) ==
  CASE kind = "ListChangesTask" -> DidFetchChanges(e, status)
    [] kind = "ConflictResolver" -> DidResolveConflict(e, status)
    [] kind = "SyncEngineInitializer" -> DidInitialize(e, status, has_refresh_token)
    [] OTHER -> e

\* A peer task (engine initialization, application registration, change
\* listing, conflict resolution) reports its status: the scheduler frees its
\* lane, tells the engine when told to, and runs the task's callback.
PeerTaskReports(i, status, used_network, has_refresh_token, tell_engine) ==
  LET t == IF i = 0 THEN running_task_ ELSE running_background_task_[i]
      registers == /\ t.kind = "RegisterAppTask"
                   /\ status = SYNC_STATUS_OK
                   /\ ActiveTrackersAt(trackers, 0, 0) = {}
      freed == IF i = 0 THEN [Engine EXCEPT !.running_task_ = NoTask]
               ELSE Engine
      told == IF tell_engine
              THEN NotifyLastOperationStatus(freed, status, used_network,
                                             has_refresh_token)
              ELSE freed
  IN
  /\ t.kind \in PeerTaskKinds
  /\ running_background_task_' =
       IF i = 0 THEN running_background_task_
       ELSE RemoveAt(running_background_task_, i)
  /\ trackers' = IF registers
                 THEN trackers \cup {ChainTracker(0, FILE_KIND_FOLDER, FALSE)}
                 ELSE trackers
  /\ files' = IF registers /\ 1 \notin DOMAIN files
              THEN files @@ (1 :> RootDetails) ELSE files
  /\ context_ready' =
       (context_ready
          \/ (t.kind = "SyncEngineInitializer" /\ status = SYNC_STATUS_OK))
  /\ Commit(PeerTaskCallback(told, t.kind, status, has_refresh_token))
  /\ UNCHANGED <<next_id, local, processor, now, syncer, remote_calls, applies,
                 completed, last, hist>>

\* A peer task reports while a syncer's changes are followed.
PeerTaskDone ==
  \E i \in 0..Len(running_background_task_),
     status \in {SYNC_STATUS_OK, SYNC_STATUS_FAILED} :
    PeerTaskReports(i, status, FALSE, TRUE, FALSE)

DoRunExclusive ==
  /\ syncer.pc = "RunExclusive"
  /\ running_background_task_ = <<>>
  /\ \E db \in DatabaseStatuses : Apply(RunExclusive(Cont(syncer), db))

DoDidDeleteRemoteFile ==
  /\ syncer.pc = "DidDeleteRemoteFile"
  /\ \E error \in GDataErrorCodes, db \in DatabaseStatuses :
       Apply(DidDeleteRemoteFile(Received(Cont(syncer), error), error, db))

DoDidGetMD5ForUpload ==
  /\ syncer.pc = "DidGetMD5ForUpload"
  /\ Apply(DidGetMD5ForUpload(Cont(syncer), local.md5))

DoDidUploadExistingFile ==
  /\ syncer.pc = "DidUploadExistingFile"
  /\ \E error \in GDataErrorCodes, entry \in EntryVariants,
        db \in DatabaseStatuses, db2 \in DatabaseStatuses :
       Apply(DidUploadExistingFile(Received(Cont(syncer), error), error, entry, db, db2))

DoDidGetRemoteMetadata ==
  /\ syncer.pc = "DidGetRemoteMetadata"
  /\ \E error \in GDataErrorCodes, entry \in EntryVariants,
        db \in DatabaseStatuses :
       Apply(DidGetRemoteMetadata(Received(Cont(syncer), error), error, entry, db))

DoDidUploadNewFile ==
  /\ syncer.pc = "DidUploadNewFile"
  /\ \E error \in GDataErrorCodes, entry \in {"same", "null"},
        db \in DatabaseStatuses :
       Apply(DidUploadNewFile(Received(Cont(syncer), error), error, entry, db))

DoDidCreateRemoteFolder ==
  /\ syncer.pc = "DidCreateRemoteFolder"
  /\ \E error \in GDataErrorCodes, db \in DatabaseStatuses :
       Apply(DidCreateRemoteFolder(
               FolderCreatorRun(Received(Cont(syncer), error), error),
               next_id, GDataErrorCodeToSyncStatusCode(error), db))

DoDidDetachResourceForCreationConflict ==
  /\ syncer.pc = "DidDetachResourceForCreationConflict"
  /\ \E error \in GDataErrorCodes :
       Apply(DidDetachResourceForCreationConflict(Received(Cont(syncer), error), error))

\* Another client's folder of the same parent and title becomes active while
\* the syncer's own folder is being created.
SimulateConcurrentCreateRemoteFolder ==
  /\ syncer.pc = "DidCreateRemoteFolder"
  /\ LET parent_id == syncer.remote_parent_folder_tracker_.tracker_id
         details == Details(FALSE, FILE_KIND_FOLDER, syncer.target_path_,
                            parent_id, 0)
     IN
     /\ ActiveTrackersAt(trackers, parent_id, syncer.target_path_) = {}
     /\ trackers' = trackers \cup {Tracker(next_id, parent_id, TRUE, TRUE, details)}
     /\ files' = files @@ (next_id :> details)
     /\ next_id' = next_id + 1
  /\ hist' = [hist EXCEPT !.raced = TRUE]
  /\ log' = <<>>
  /\ UNCHANGED <<local, processor, now, context_ready, syncer, remote_calls, sched_vars,
                 engine_vars, applies>>

Next ==
  \/ ApplyLocalChange
  \/ StartNextTask
  \/ PeerTaskDone
  \/ DoRunExclusive
  \/ DoDidDeleteRemoteFile
  \/ DoDidGetMD5ForUpload
  \/ DoDidUploadExistingFile
  \/ DoDidGetRemoteMetadata
  \/ DoDidUploadNewFile
  \/ DoDidCreateRemoteFolder
  \/ DoDidDetachResourceForCreationConflict
  \/ SimulateConcurrentCreateRemoteFolder

Spec == Init /\ [][Next]_vars

-----------------------------------------------------------------------------------------------------------------------------------------------------
(* The engine under its events.  The syncer is taken by what it reports to  *)
(* DidApplyLocalChange; its steps are followed under Spec.                   *)

\* The statuses a LocalToRemoteSyncer ends a run with.
LocalToRemoteSyncerStatuses ==
  {SYNC_STATUS_OK, SYNC_STATUS_RETRY, SYNC_STATUS_FILE_BUSY,
   SYNC_STATUS_UNKNOWN_ORIGIN, SYNC_STATUS_FAILED, SYNC_STATUS_NETWORK_ERROR,
   SYNC_DATABASE_ERROR_FAILED}

SyncActions ==
  {SYNC_ACTION_NONE, SYNC_ACTION_ADDED, SYNC_ACTION_UPDATED, SYNC_ACTION_DELETED}

\* The engine after its constructor and Initialize: the initializer is
\* queued, there is no metadata database yet, and the network is as the
\* NetworkChangeNotifier finds it.
EngineInit ==
  /\ trackers = EmptyStore.trackers
  /\ files = EmptyStore.files
  /\ next_id = EmptyStore.next_id
  /\ context_ready = FALSE
  /\ hist = [all_ok |-> TRUE, raced |-> FALSE,
             init_trackers |-> EmptyStore.trackers]
  /\ local = [change |-> "AddOrUpdate", file_type |-> "File",
              metadata_type |-> "File", path |-> 1, md5 |-> 1,
              url_is_valid |-> TRUE]
  /\ syncer = NewSyncer
  /\ processor = NewProcessor
  /\ remote_calls = <<>>
  /\ pending_tasks_ = <<Task("SyncEngineInitializer", "HIGH")>>
  /\ running_task_ = NoTask
  /\ running_background_task_ = <<>>
  /\ listing_remote_changes_ = FALSE
  /\ service_state_ = REMOTE_SERVICE_TEMPORARY_UNAVAILABLE
  /\ sync_enabled_ = FALSE
  /\ network_available_ \in BOOLEAN
  /\ should_check_remote_change_ = TRUE
  /\ should_check_conflict_ = TRUE
  /\ time_to_check_changes_ = 0
  /\ now = 0
  /\ log = <<>>
  /\ applies = 0
  /\ completed = 0
  /\ last = [status |-> "none", sync_action |-> SYNC_ACTION_NONE,
             target_path |-> 0, calls |-> <<>>,
             file_status_notified |-> FALSE,
             needs_remote_change_listing |-> FALSE, used_network |-> FALSE]

\* What an event of the engine leaves unchanged.
EventFrame ==
  UNCHANGED <<store_vars, local, processor, now, context_ready, syncer, remote_calls,
              running_background_task_, applies, completed, last, hist>>

\* An event is followed while the queue it leaves is no longer than MaxPending.
Handled(e) == Len(e.pending_tasks_) <= MaxPending /\ Commit(e)

DoSetSyncEnabled ==
  /\ \E enabled \in BOOLEAN : Handled(SetSyncEnabled(Engine, enabled))
  /\ EventFrame

DoOnNotificationReceived ==
  /\ Handled(OnNotificationReceived(Engine, now))
  /\ EventFrame

DoOnReadyToSendRequests ==
  /\ Handled(OnReadyToSendRequests(Engine, now))
  /\ EventFrame

DoOnRefreshTokenInvalid ==
  /\ Handled(OnRefreshTokenInvalid(Engine))
  /\ EventFrame

DoOnNetworkChanged ==
  /\ \E connected \in BOOLEAN : Handled(OnNetworkChanged(Engine, connected, now))
  /\ EventFrame

\* The scheduler's client asks the engine for work.
DoMaybeScheduleNextTask ==
  /\ Handled(MaybeScheduleNextTask(Engine, now))
  /\ EventFrame

\* SyncEngine::ApplyLocalChange, without the count of the calls.
DoApplyLocalChange ==
  /\ Handled(ScheduleSyncTask(Engine, "LocalToRemoteSyncer", "MED"))
  /\ EventFrame

\* The running LocalToRemoteSyncer reports: the scheduler frees the lane,
\* tells the engine the status and runs DidApplyLocalChange.  Without a
\* metadata database the syncer fails before it does anything.
SyncerReports(status, sync_action, needs_remote_change_listing, url_is_valid, used_network, has_refresh_token) ==
  /\ running_task_.kind = "LocalToRemoteSyncer"
  /\ ~context_ready =>
       /\ status = SYNC_STATUS_FAILED
       /\ sync_action = SYNC_ACTION_NONE
       /\ ~needs_remote_change_listing
       /\ ~used_network
  /\ Handled(DidApplyLocalChange(
               NotifyLastOperationStatus(
                 [Engine EXCEPT !.running_task_ = NoTask], status,
                 used_network, has_refresh_token),
               [syncer EXCEPT
                  !.sync_action_ = sync_action,
                  !.needs_remote_change_listing_ = needs_remote_change_listing,
                  !.url_is_valid = url_is_valid,
                  !.used_network = used_network],
               status, has_refresh_token, now))
  /\ syncer' = NewSyncer
  /\ UNCHANGED <<store_vars, local, processor, now, context_ready, remote_calls,
                 running_background_task_, applies, completed, last, hist>>

DoSyncerReports ==
  \E status \in LocalToRemoteSyncerStatuses, sync_action \in SyncActions,
     needs_remote_change_listing \in BOOLEAN, url_is_valid \in BOOLEAN :
    \E used_network \in NetworkUses(status),
       has_refresh_token \in RefreshTokenAnswers(status) :
      SyncerReports(status, sync_action, needs_remote_change_listing,
                    url_is_valid, used_network, has_refresh_token)

\* A peer task reports, and the scheduler tells the engine.
DoPeerTaskReports ==
  \E status \in SyncStatusCodes :
    \E used_network \in NetworkUses(status),
       has_refresh_token \in RefreshTokenAnswers(status) \cup
         (IF running_task_.kind = "SyncEngineInitializer" THEN BOOLEAN ELSE {}) :
      PeerTaskReports(0, status, used_network, has_refresh_token, TRUE)

\* Time passes.
Tick ==
  /\ now < MaxTime
  /\ now' = now + 1
  /\ log' = <<>>
  /\ UNCHANGED <<store_vars, local, processor, context_ready, syncer, remote_calls,
                 sched_vars, engine_vars, applies, hist>>

EngineNext ==
  \/ DoSetSyncEnabled
  \/ DoOnNotificationReceived
  \/ DoOnReadyToSendRequests
  \/ DoOnRefreshTokenInvalid
  \/ DoOnNetworkChanged
  \/ DoMaybeScheduleNextTask
  \/ DoApplyLocalChange
  \/ StartNextTask
  \/ DoSyncerReports
  \/ DoPeerTaskReports
  \/ Tick

EngineSpec == EngineInit /\ [][EngineNext]_vars

-----
(* What the claims speak about *)

\* The kinds of the Drive calls, in the order they were issued.
Ops(calls) == [i \in 1..Len(calls) |-> calls[i].op]

\* The app has an active root tracker.
ScopeRegistered == ActiveTrackersAt(trackers, 0, 0) # {}

\* The run has received the answer of its last Drive call.
LastCallAnswered(op, errors) ==
  /\ remote_calls # <<>>
  /\ remote_calls[Len(remote_calls)].op = op
  /\ remote_calls[Len(remote_calls)].reply \in errors

\* RunExclusive is being left by this step.
RunExclusiveStep == syncer.pc = "RunExclusive" /\ syncer'.pc # "RunExclusive"

\* The step ends the run by reporting status to the scheduler.
Reports(status) == syncer'.pc = "done" /\ last'.status = status

-----------------------------------------------------------------------------
(* C1 *)

\* C1: the token a run received is handed back through NotifyTaskDone exactly
\* once: it is never dropped, never returned twice, no continuation holds a
\* token that was moved away, and a run that has ended has returned it.
C1_TokenReturnedExactlyOnce ==
  /\ ~syncer.dropped
  /\ syncer.token # "null"
  /\ syncer.notified <= 1
  /\ syncer.pc \notin {"crashed", "lost"}
  /\ syncer.pc = "done" => syncer.notified = 1 /\ syncer.token = "returned"

\* The run where the claim's case happens: the folder was created and its
\* tracker could not be activated.
C1_ActivationFailed == syncer.pc = "DidDetachResourceForCreationConflict"

-----------------------------------------------------------------------------
(* C2 *)

\* C2: with the background allowance the engine configures, no two tasks are
\* running at the same time: a task admitted and not yet reported is alone,
\* and nothing runs in the background.
C2_NoTwoTasksRunning ==
  /\ RunningTasks <= 1
  /\ running_background_task_ = <<>>

\* A task that did not ask for exclusive access holds the lane while another
\* task waits in the queue.
C2_TaskWaitsBehindNonExclusive ==
  /\ running_task_ # NoTask
  /\ ~running_task_.exclusive
  /\ pending_tasks_ # <<>>

-----------------------------------------------------------------------------
(* C3 *)

\* C3 as stated: every local change applied (with the context ready) while
\* the scope has no active root tracker completes with UnknownOrigin.
C3_AlwaysUnknownOrigin ==
  [][(RunExclusiveStep /\ context_ready /\ ~ScopeRegistered)
       => Reports(SYNC_STATUS_UNKNOWN_ORIGIN)]_vars

\* C3 amended: applied with the context ready while the scope has no active
\* root tracker, an add or update whose local file is missing (metadata of
\* unknown type) completes with Ok, every other change with UnknownOrigin; no
\* Drive call is made and the store is left as it was, on every such apply.
C3_UnknownOriginUnlessStray ==
  [][(RunExclusiveStep /\ context_ready /\ ~ScopeRegistered)
       => /\ Reports(IF local.metadata_type = "Unknown"
                        /\ local.change = "AddOrUpdate"
                     THEN SYNC_STATUS_OK ELSE SYNC_STATUS_UNKNOWN_ORIGIN)
          /\ remote_calls' = <<>>
          /\ UNCHANGED store_vars]_vars

\* A second apply in a row was answered UnknownOrigin, the scope still being
\* unregistered.
C3_SecondApplyStillUnknownOrigin ==
  /\ completed >= 2
  /\ syncer.pc = "done"
  /\ last.status = SYNC_STATUS_UNKNOWN_ORIGIN
  /\ ~ScopeRegistered
  /\ hist.init_trackers = {}

-----------------------------------------------------------------------------
(* C4 *)

\* The run found a dirty active tracker of a remote folder at the target path
\* and the local change adds or updates a file there.
C4_ConflictCase ==
  /\ local.change = "AddOrUpdate"
  /\ local.file_type = "File"
  /\ local.metadata_type = "File"
  /\ syncer.pc \notin {"none", "RunExclusive"}
  /\ syncer.target_path_ = local.path
  /\ syncer.remote_file_tracker_.active
  /\ syncer.remote_file_tracker_.dirty
  /\ syncer.remote_file_tracker_.synced_details.file_kind = FILE_KIND_FOLDER

\* C4 as stated: in the conflict case the remote file is never created
\* before, or without, the deletion of the remote folder.
C4_DeleteFolderThenCreateFile ==
  C4_ConflictCase =>
    \A i \in 1..Len(remote_calls) :
      remote_calls[i].op = "UploadNewFile" =>
        \E j \in 1..(i - 1) :
          /\ remote_calls[j].op = "DeleteResource"
          /\ remote_calls[j].file_id = syncer.remote_file_tracker_.tracker_id

\* C4 amended: in the conflict case the run issues exactly one remote
\* operation, the upload of the local file as a new file with the target's
\* title under the target's parent folder, and no delete; when it reports Ok
\* the new file's tracker is the active one at the path and the folder's
\* tracker is not active any more.
C4_UploadsNewFileWithoutDelete ==
  C4_ConflictCase =>
    /\ Ops(remote_calls) = <<"UploadNewFile">>
    /\ remote_calls[1].parent_id = syncer.remote_parent_folder_tracker_.tracker_id
    /\ remote_calls[1].title = local.path
    /\ (syncer.pc = "done" /\ last.status = SYNC_STATUS_OK) =>
         /\ \A t \in ActiveTrackersAt(
                       trackers,
                       syncer.remote_parent_folder_tracker_.tracker_id,
                       local.path) :
              /\ t.synced_details.file_kind = FILE_KIND_FILE
              /\ t.tracker_id # syncer.remote_file_tracker_.tracker_id
         /\ ActiveTrackersAt(trackers,
                             syncer.remote_parent_folder_tracker_.tracker_id,
                             local.path) # {}

\* A conflict-case run has reported Ok.
C4_ConflictResolved ==
  C4_ConflictCase /\ syncer.pc = "done" /\ last.status = SYNC_STATUS_OK

-----------------------------------------------------------------------------
(* C5 *)

\* The server rejected the run's upload over the existing remote file with
\* precondition-failed or conflict.
C5_UploadRejected ==
  \E i \in 1..Len(remote_calls) :
    /\ remote_calls[i].op = "UploadExistingFile"
    /\ remote_calls[i].reply \in {"HTTP_PRECONDITION", "HTTP_CONFLICT"}

-----------------------------------------------------------------------------
(* C6 *)

\* The step handles the answer of DeleteResource, and the answer is one of
\* errors.
DeleteAnswered(errors) ==
  /\ syncer.pc = "DidDeleteRemoteFile"
  /\ syncer'.pc # "DidDeleteRemoteFile"
  /\ remote_calls'[Len(remote_calls')].reply \in errors

\* C6 as stated: a delete rejected with precondition-failed or conflict is
\* abandoned, the run marks that a remote listing is needed and reports Retry.
C6_RejectedDeleteReportsRetry ==
  [][DeleteAnswered({"HTTP_PRECONDITION", "HTTP_CONFLICT"})
       => /\ Reports(SYNC_STATUS_RETRY)
          /\ last'.needs_remote_change_listing
          /\ Ops(remote_calls') = <<"DeleteResource">>]_vars

\* C6 amended: a delete rejected with precondition-failed or conflict is
\* abandoned (no further Drive call, the store is left as it was), no remote
\* listing is asked for, and the run reports Ok when the delete was for a
\* local delete (the local deletion is ignored) and Retry when it was to
\* clear a remote object of the wrong kind out of the path.
C6_RejectedDeleteIsIgnored ==
  [][DeleteAnswered({"HTTP_PRECONDITION", "HTTP_CONFLICT"})
       => /\ Reports(IF local.change = "Delete"
                     THEN SYNC_STATUS_OK ELSE SYNC_STATUS_RETRY)
          /\ ~last'.needs_remote_change_listing
          /\ Ops(remote_calls') = <<"DeleteResource">>
          /\ UNCHANGED store_vars]_vars

\* A rejected delete of a local delete has been reported as Ok.
C6_RejectedDeleteReportedOk ==
  /\ syncer.pc = "done"
  /\ LastCallAnswered("DeleteResource", {"HTTP_PRECONDITION", "HTTP_CONFLICT"})
  /\ last.status = SYNC_STATUS_OK

-----------------------------------------------------------------------------
(* C7 *)

\* The tracker of file_id is in the store.
Tracked(ts, file_id) == \E t \in ts : t.tracker_id = file_id

\* C7 as stated, for a store whose write succeeds: when the remote delete
\* returns not-found the task returns Ok and the file's tracker is absent from
\* the store when it has finished.
C7_NotFoundDeleteReportsOk ==
  [][(DeleteAnswered({"HTTP_NOT_FOUND"})
      /\ last'.status # SYNC_DATABASE_ERROR_FAILED)
       => /\ Reports(SYNC_STATUS_OK)
          /\ ~Tracked(trackers', remote_calls'[1].file_id)]_vars

\* C7 amended: when the remote delete returns not-found the run applies the
\* deletion to the store for that file id before it completes.  When that
\* write succeeds the file's metadata is marked missing, its tracker and the
\* trackers below it are absent from the store, and the task returns Ok if
\* the delete was for a local delete and Retry if it was to clear a remote
\* object of the wrong kind out of the path; when the write fails the task
\* returns the store's error and the store is as it was.
C7_NotFoundDeleteIsApplied ==
  [][DeleteAnswered({"HTTP_NOT_FOUND"})
       => /\ syncer'.pc = "done"
          /\ Ops(remote_calls') = <<"DeleteResource">>
          /\ IF last'.status = SYNC_DATABASE_ERROR_FAILED
             THEN UNCHANGED store_vars
             ELSE /\ last'.status = IF local.change = "Delete"
                                    THEN SYNC_STATUS_OK ELSE SYNC_STATUS_RETRY
                  /\ ~Tracked(trackers', remote_calls'[1].file_id)
                  /\ \A t \in trackers' :
                       t.parent_tracker_id # remote_calls'[1].file_id
                  /\ trackers' \subseteq trackers
                  /\ files'[remote_calls'[1].file_id].missing]_vars

\* A not-found delete of a tracked file has been reported as Ok and the
\* tracker is gone.
C7_NotFoundDeleteReportedOk ==
  /\ syncer.pc = "done"
  /\ LastCallAnswered("DeleteResource", {"HTTP_NOT_FOUND"})
  /\ last.status = SYNC_STATUS_OK
  /\ Tracked(hist.init_trackers, remote_calls[1].file_id)
  /\ ~Tracked(trackers, remote_calls[1].file_id)

-----------------------------------------------------------------------------
(* C8 *)

\* C8: once the folder the run created could not be activated and has been
\* detached from its parent, the task has reported Retry, the new folder's
\* tracker is not active and exactly one tracker is active for the
\* parent+title.
C8_CreationConflictDetachedAndRetry ==
  LastCallAnswered("RemoveResourceFromDirectory", {"HTTP_SUCCESS"}) =>
    /\ syncer.pc = "done"
    /\ last.status = SYNC_STATUS_RETRY
    /\ ~FindTrackerByTrackerID(
          trackers, remote_calls[Len(remote_calls)].file_id).active
    /\ Cardinality(ActiveTrackersAt(
                     trackers,
                     syncer.remote_parent_folder_tracker_.tracker_id,
                     syncer.target_path_)) = 1

\* The detach of the folder that lost the race has been answered.
C8_DetachAnswered ==
  LastCallAnswered("RemoveResourceFromDirectory", {"HTTP_SUCCESS"})

-----------------------------------------------------------------------------
(* C9 *)

\* The nearest active ancestor of the change's path when the behaviour began.
C9_Ancestor == FindNearestActiveAncestor(hist.init_trackers, local.path)

\* The local change adds a file whose nearest active ancestor was a folder
\* two or more components above it, every Drive call and store write so far
\* has succeeded and no other client has touched the path.
C9_Case ==
  /\ local.change = "AddOrUpdate"
  /\ local.file_type = "File"
  /\ local.metadata_type = "File"
  /\ C9_Ancestor.found
  /\ C9_Ancestor.tracker.synced_details.file_kind = FILE_KIND_FOLDER
  /\ local.path - C9_Ancestor.path >= 2
  /\ hist.all_ok
  /\ ~hist.raced

\* C9: in that case, with k the number of components missing at the start,
\* each of the first k-1 applies creates exactly the first folder still
\* missing and returns Retry, and the k-th apply uploads the file and returns
\* Ok with action Added.
C9_OneFolderPerApplyThenFile ==
  (C9_Case /\ syncer.pc = "done"
   /\ completed \in 1..(local.path - C9_Ancestor.path)) =>
    LET nearest == FindNearestActiveAncestor(trackers, local.path)
        depth == C9_Ancestor.path + completed
    IN
    /\ Len(last.calls) = 1
    /\ last.calls[1].title = depth
    /\ last.calls[1].parent_id =
         FindNearestActiveAncestor(trackers, depth - 1).tracker.tracker_id
    /\ last.calls[1].reply = "HTTP_SUCCESS"
    /\ last.sync_action = SYNC_ACTION_ADDED
    /\ nearest.path = depth
    /\ Cardinality(trackers) = Cardinality(hist.init_trackers) + completed
    /\ IF depth < local.path
       THEN /\ last.calls[1].op = "CreateFolder"
            /\ last.status = SYNC_STATUS_RETRY
            /\ nearest.tracker.synced_details.file_kind = FILE_KIND_FOLDER
       ELSE /\ last.calls[1].op = "UploadNewFile"
            /\ last.status = SYNC_STATUS_OK
            /\ nearest.tracker.synced_details.file_kind = FILE_KIND_FILE

\* The k-th apply has uploaded the file, after k-1 applies that each created
\* a folder.
C9_FileAddedOnLastApply ==
  /\ C9_Case
  /\ syncer.pc = "done"
  /\ completed = local.path - C9_Ancestor.path
  /\ last.status = SYNC_STATUS_OK
  /\ last.sync_action = SYNC_ACTION_ADDED

-----------------------------------------------------------------------------
(* C10 *)

\* No active tracker sits at the path of the local change.
C10_NothingActiveAtPath ==
  LET a == FindNearestActiveAncestor(trackers, local.path) IN
  ~a.found \/ a.path < local.path

\* C10 as stated: a local delete of a file that is absent locally and has no
\* active remote object at its path returns Ok without a Drive call and
\* without a change to the store, every time it is applied.
C10_DeleteOfAbsentIsNoOp ==
  [][(RunExclusiveStep /\ context_ready /\ local.change = "Delete"
      /\ local.metadata_type = "Unknown" /\ C10_NothingActiveAtPath)
       => /\ Reports(SYNC_STATUS_OK)
          /\ remote_calls' = <<>>
          /\ UNCHANGED store_vars]_vars

\* C10 amended: in a registered scope (and with the sync context ready), a
\* local delete of a file that has no active remote object at its path
\* returns Ok as a no-op, every time it is applied: no Drive call is issued,
\* the store is not changed, the action is None and no follow-up task is
\* queued.
C10_DeleteOfAbsentIsNoOpWhenRegistered ==
  [][(RunExclusiveStep /\ context_ready /\ local.change = "Delete"
      /\ ScopeRegistered /\ C10_NothingActiveAtPath)
       => /\ Reports(SYNC_STATUS_OK)
          /\ remote_calls' = <<>>
          /\ last'.sync_action = SYNC_ACTION_NONE
          /\ UNCHANGED <<store_vars, pending_tasks_>>]_vars

\* The same delete of an absent file has been applied twice, the second time
\* as the first.
C10_DeleteAppliedTwice ==
  /\ completed >= 2
  /\ syncer.pc = "done"
  /\ local.change = "Delete"
  /\ local.metadata_type = "Unknown"
  /\ ScopeRegistered
  /\ C10_NothingActiveAtPath
  /\ last.status = SYNC_STATUS_OK
  /\ last.calls = <<>>
  /\ trackers = hist.init_trackers

-----------------------------------------------------------------------------
(* The service state machine of the engine *)

\* C11 as stated: right after the engine is constructed and initialized,
\* before any event, GetCurrentState returns TemporarilyUnavailable.
C11_InitiallyTemporarilyUnavailable ==
  EngineInit => GetCurrentState(Engine) = REMOTE_SERVICE_TEMPORARY_UNAVAILABLE

\* C11: right after the engine is constructed and initialized, before any
\* event, the stored service state is TemporarilyUnavailable while
\* GetCurrentState returns Disabled, sync not being enabled yet; once
\* SetSyncEnabled(true) is the first event GetCurrentState returns
\* TemporarilyUnavailable.
C11_InitiallyDisabledUntilSyncEnabled ==
  EngineInit =>
    /\ service_state_ = REMOTE_SERVICE_TEMPORARY_UNAVAILABLE
    /\ GetCurrentState(Engine) = REMOTE_SERVICE_DISABLED
    /\ GetCurrentState(SetSyncEnabled(Engine, TRUE)) =
         REMOTE_SERVICE_TEMPORARY_UNAVAILABLE

\* C11's case: the engine as Initialize leaves it.
C11_JustInitialized == EngineInit /\ ~sync_enabled_

\* C12: once a task's database error has made the service state Disabled, no
\* later event takes the state away from Disabled (enabling or disabling sync
\* does not touch the stored state).
C12_DisabledIsTerminal ==
  [][service_state_ = REMOTE_SERVICE_DISABLED
       => service_state_' = REMOTE_SERVICE_DISABLED]_vars

\* C12's case: a database error has disabled the service while sync is
\* enabled.
C12_DisabledByDatabaseError ==
  service_state_ = REMOTE_SERVICE_DISABLED /\ sync_enabled_

\* The states the service-state observers were told in the step, in order.
StatesNotified(calls) ==
  LET ups == CallsTo(calls, "OnRemoteServiceStateUpdated")
  IN [i \in 1..Len(ups) |-> ups[i].arg.state]

\* C13: the service-state observers are told only of actual changes of what
\* GetCurrentState returns: every notification of a step carries a state
\* different from the one observable just before it (the state before the
\* step, or the state of the notification before), and the last one carries
\* the state observable after the step; so a call of UpdateServiceState or
\* SetSyncEnabled that leaves the observable state as it was notifies nobody.
C13_NotifiedOnlyOnChange ==
  [][LET states == <<GetCurrentState(Engine)>> \o StatesNotified(log')
     IN /\ \A i \in 1..(Len(states) - 1) : states[i + 1] # states[i]
        /\ states[Len(states)] = GetCurrentState(Engine)']_vars

\* C13's case: the observers have just been told of a new state.
C13_ObserversNotified == StatesNotified(log) # <<>>

\* The state C14 gives for a task's report.
C14_NextState(state, status, used_network, has_refresh_token) ==
  CASE status \in {SYNC_STATUS_AUTHENTICATION_FAILED,
                   SYNC_STATUS_ACCESS_FORBIDDEN} ->
         REMOTE_SERVICE_AUTHENTICATION_REQUIRED
    [] status \in {SYNC_STATUS_SERVICE_TEMPORARILY_UNAVAILABLE,
                   SYNC_STATUS_NETWORK_ERROR, SYNC_STATUS_ABORT,
                   SYNC_STATUS_FAILED} ->
         IF has_refresh_token THEN REMOTE_SERVICE_TEMPORARY_UNAVAILABLE
         ELSE REMOTE_SERVICE_AUTHENTICATION_REQUIRED
    [] status \in {SYNC_DATABASE_ERROR_CORRUPTION, SYNC_DATABASE_ERROR_IO_ERROR,
                   SYNC_DATABASE_ERROR_FAILED} ->
         REMOTE_SERVICE_DISABLED
    [] status = SYNC_STATUS_OK /\ used_network -> REMOTE_SERVICE_OK
    [] OTHER -> state

\* The reports of tasks among the calls of a step.
Reported(calls) == CallsTo(calls, "NotifyLastOperationStatus")

\* Whether the refresh token was held when the calls were made: the answer
\* HasRefreshToken gave first, and of no matter when it was not asked.
TokenHeld(calls) ==
  LET asked == CallsTo(calls, "HasRefreshToken")
  IN asked = <<>> \/ asked[1].arg.answer

MappedStatuses ==
  {SYNC_STATUS_OK, SYNC_STATUS_AUTHENTICATION_FAILED,
   SYNC_STATUS_ACCESS_FORBIDDEN, SYNC_STATUS_SERVICE_TEMPORARILY_UNAVAILABLE,
   SYNC_STATUS_NETWORK_ERROR, SYNC_STATUS_ABORT, SYNC_STATUS_FAILED,
   SYNC_DATABASE_ERROR_CORRUPTION, SYNC_DATABASE_ERROR_IO_ERROR,
   SYNC_DATABASE_ERROR_FAILED}

\* A report that is none of the mapped ones: a status without a case (Retry,
\* FileBusy, UnknownOrigin, NoChangeToSync, ...) or Ok without network use.
Unmapped(report) ==
  \/ report.arg.status \notin MappedStatuses
  \/ report.arg.status = SYNC_STATUS_OK /\ ~report.arg.used_network

BecomesOk ==
  service_state_ # REMOTE_SERVICE_OK /\ service_state_' = REMOTE_SERVICE_OK

\* The step is a task's report of Ok after using the network.
TaskReportsOkWithNetwork ==
  /\ Reported(log') # <<>>
  /\ Reported(log')[1].arg.status = SYNC_STATUS_OK
  /\ Reported(log')[1].arg.used_network

\* The step is a network change from absent to present.
Reconnects ==
  DoOnNetworkChanged /\ ~network_available_ /\ network_available_'

\* C16 as stated: the service state becomes Ok only by a task that reports Ok
\* after using the network, by OnReadyToSendRequests, or by the network
\* going from absent to present.
C16_OkOnlyByOperationOrReconnection ==
  [][BecomesOk =>
       \/ TaskReportsOkWithNetwork
       \/ DoOnReadyToSendRequests
       \/ Reconnects]_vars

\* C16, amended: the service state becomes Ok only by a task that reports Ok
\* after using the network, by OnReadyToSendRequests, by the network going
\* from absent to present, or by a push notification received while the
\* state is TemporarilyUnavailable.
C16_OkOnlyByOperationReconnectionOrPush ==
  [][BecomesOk =>
       \/ TaskReportsOkWithNetwork
       \/ DoOnReadyToSendRequests
       \/ Reconnects
       \/ /\ DoOnNotificationReceived
          /\ service_state_ = REMOTE_SERVICE_TEMPORARY_UNAVAILABLE]_vars

\* C16's case: the state has just turned Ok, told to the observers, by a push
\* notification.
C16_OkByPushNotification ==
  /\ service_state_ = REMOTE_SERVICE_OK
  /\ \E i \in 1..Len(log) :
       log[i] = Call("OnRemoteServiceStateUpdated",
                     StateUpdate(REMOTE_SERVICE_OK,
                                 "Got push notification for Drive."))

\* The Change Listers among the tasks.
Listers(tasks) == SelectSeq(tasks, LAMBDA t : t.kind = "ListChangesTask")

\* The number of Change Listers queued or running.
ListersInFlight ==
  Len(Listers(pending_tasks_)) + Len(Listers(running_background_task_))
    + (IF running_task_.kind = "ListChangesTask" THEN 1 ELSE 0)

\* C17: at most one Change Lister is queued or running; the engine's flag
\* listing_remote_changes_ is set exactly while one is, so that no trigger
\* (a syncer that needs a listing, periodic maintenance) adds a second; and
\* a queued one, which only a syncer's trigger queues, has High priority.
C17_AtMostOneChangeLister ==
  /\ ListersInFlight <= 1
  /\ listing_remote_changes_ <=> ListersInFlight = 1
  /\ \A i \in 1..Len(pending_tasks_) :
       pending_tasks_[i].kind = "ListChangesTask" =>
         pending_tasks_[i].priority = "HIGH"

\* C17's case: a Change Lister that a syncer's trigger queued is still the
\* only one after an explicit signal asked for a listing while the scheduler
\* was idle (scheduling a lister clears should_check_remote_change_).
C17_SignalledWhileListing ==
  /\ Listers(pending_tasks_) # <<>>
  /\ running_task_ = NoTask
  /\ should_check_remote_change_
  /\ sync_enabled_
  /\ ListersInFlight = 1

\* The positions in the calls of a step of the calls to one receiver.
PositionsOf(calls, to) == {i \in 1..Len(calls) : calls[i].to = to}

\* The step is the report of a syncer that completed with UnknownOrigin for a
\* valid URL.
ReportsUnknownOriginForValidUrl ==
  /\ running_task_.kind = "LocalToRemoteSyncer"
  /\ \E c \in {Call("callback", [status |-> SYNC_STATUS_UNKNOWN_ORIGIN])} :
       PositionsOf(log', "callback") # {}
         /\ \A i \in PositionsOf(log', "callback") : log'[i] = c
  /\ \E sync_action \in SyncActions, needs_remote_change_listing \in BOOLEAN,
        has_refresh_token \in BOOLEAN :
       SyncerReports(SYNC_STATUS_UNKNOWN_ORIGIN, sync_action,
                     needs_remote_change_listing, TRUE, FALSE,
                     has_refresh_token)

\* C18 as stated: when a syncer completes with UnknownOrigin for a valid URL,
\* the application's root is registered by the time the caller's callback has
\* been invoked.
C18_RegisteredBeforeCallback ==
  [][ReportsUnknownOriginForValidUrl => ScopeRegistered']_vars

\* C18, amended: when a syncer completes with UnknownOrigin for a valid URL,
\* the engine calls RegisterOrigin before it invokes the caller's callback;
\* RegisterOrigin finishes at once when the root is registered already, and
\* otherwise leaves a RegisterAppTask queued at High priority, so that the
\* root is yet to be registered when the callback runs.
C18_RegistrationRequestedBeforeCallback ==
  [][ReportsUnknownOriginForValidUrl =>
       /\ PositionsOf(log', "RegisterOrigin") # {}
       /\ \A i \in PositionsOf(log', "RegisterOrigin"),
             j \in PositionsOf(log', "callback") : i < j
       /\ IF ScopeRegistered
          THEN PositionsOf(log', "RegisterOrigin.callback") # {}
          ELSE /\ ~ScopeRegistered'
               /\ \E k \in 1..Len(pending_tasks_') :
                    pending_tasks_'[k] = Task("RegisterAppTask", "HIGH")]_vars

\* C18's case: the caller's callback has been invoked with UnknownOrigin after
\* RegisterOrigin queued the registration of a root that is not registered.
C18_CallbackAfterRegisterOrigin ==
  /\ PositionsOf(log, "RegisterOrigin") # {}
  /\ \E j \in PositionsOf(log, "callback") :
       log[j].arg.status = SYNC_STATUS_UNKNOWN_ORIGIN
  /\ ~ScopeRegistered
  /\ \E k \in 1..Len(pending_tasks_) : pending_tasks_[k].kind = "RegisterAppTask"

\* The step is the report of a syncer whose action and URL were these.
ReportsAction(sync_action, url_is_valid) ==
  /\ running_task_.kind = "LocalToRemoteSyncer"
  /\ PositionsOf(log', "callback") # {}
  /\ LET status == CallsTo(log', "callback")[1].arg.status
     IN \E needs_remote_change_listing \in BOOLEAN,
           has_refresh_token \in RefreshTokenAnswers(status) :
          SyncerReports(status, sync_action, needs_remote_change_listing,
                        url_is_valid, Reported(log')[1].arg.used_network,
                        has_refresh_token)

\* C19: when a syncer reports, the file-status observers are notified only
\* if the syncer's action is not None and its URL is valid, and then of that
\* action; a report with action None or with an invalid URL notifies none.
C19_FileStatusOnlyForActionOnValidUrl ==
  [][PositionsOf(log', "OnFileStatusChanged") # {} =>
       \A sync_action \in SyncActions, url_is_valid \in BOOLEAN :
         ReportsAction(sync_action, url_is_valid) =>
           /\ sync_action # SYNC_ACTION_NONE
           /\ url_is_valid
           /\ \A i \in PositionsOf(log', "OnFileStatusChanged") :
                log'[i].arg.sync_action = sync_action]_vars

\* C19's case: a syncer has reported and the file-status observers have been
\* notified of its action.
C19_FileStatusNotified ==
  /\ PositionsOf(log, "callback") # {}
  /\ \E i \in PositionsOf(log, "OnFileStatusChanged") :
       log[i].arg.sync_action # SYNC_ACTION_NONE

\* A Change Lister is scheduled in the step.
StartsListing == ~listing_remote_changes_ /\ listing_remote_changes_'

\* The step is an explicit signal that asks for a listing: a push
\* notification, the drive service getting ready, or a reconnection.
ExplicitSignal ==
  \/ DoOnNotificationReceived
  \/ DoOnReadyToSendRequests
  \/ Reconnects

\* C20: periodic maintenance schedules a Change Lister at most once per
\* interval.  Scheduling one clears should_check_remote_change_ and sets
\* time_to_check_changes_ one interval ahead, and nothing else moves that
\* time; only an explicit signal sets should_check_remote_change_ again; and
\* a maintenance tick schedules a lister only when the time has come or the
\* flag is set.
C20_ListingRateLimited ==
  [][/\ StartsListing =>
          /\ time_to_check_changes_' = now + kListChangesRetryDelaySeconds
          /\ ~should_check_remote_change_'
     /\ time_to_check_changes_' # time_to_check_changes_ => StartsListing
     /\ (~should_check_remote_change_ /\ should_check_remote_change_') =>
          ExplicitSignal
     /\ (StartsListing /\ DoMaybeScheduleNextTask) =>
          \/ should_check_remote_change_
          \/ now >= time_to_check_changes_]_vars

\* C20's case: maintenance has started a Change Lister after an earlier tick,
\* inside the interval of an earlier listing, was given a Conflict Resolver
\* instead (which is what clears should_check_conflict_).
C20_ListedAgainAfterInterval ==
  /\ running_task_ = Task("ListChangesTask", "LOW")
  /\ ~should_check_conflict_
  /\ now >= kListChangesRetryDelaySeconds
  /\ time_to_check_changes_ = now + kListChangesRetryDelaySeconds
  /\ log = <<>>

-----------------------------------------------------------------------------
(* Remote changes: the engine with its database loaded *)

\* SyncEngine::ProcessRemoteChange.
ProcessRemoteChange(e) == ScheduleSyncTask(e, "RemoteToLocalSyncer", "MED")

\* DidProcessRemoteChange that treats the deletion of the sync root as any
\* other change.
DidProcessRemoteChangeKeepingDatabase(e, r, status, has_refresh_token) ==
  IF status = SYNC_STATUS_OK
  THEN LET e1 == IF r.sync_action # SYNC_ACTION_NONE /\ r.url_is_valid
                 THEN Log(e, "OnFileStatusChanged",
                          [sync_action |-> r.sync_action])
                 ELSE e
           e2 == IF /\ r.sync_action = SYNC_ACTION_DELETED
                    /\ r.url_is_valid
                    /\ r.is_root_path
                 THEN RegisterOrigin(e1, has_refresh_token)
                 ELSE e1
       IN Log([e2 EXCEPT !.should_check_conflict_ = TRUE],
              "callback", [status |-> status])
  ELSE Log(e, "callback", [status |-> status])

\* SyncEngine::DidProcessRemoteChange, run by the scheduler with the status
\* the RemoteToLocalSyncer r reported; MetadataDatabase::ClearDatabase takes
\* the database away from the context.
DidProcessRemoteChange(e, r, status, has_refresh_token) ==
  IF r.is_sync_root_deletion
  THEN Log(PostInitializeTask(
             [Log(e, "ClearDatabase", <<>>) EXCEPT !.metadata_database = FALSE]),
           "callback", [status |-> status])
  ELSE IF status = SYNC_STATUS_OK
  THEN LET e1 == IF r.sync_action # SYNC_ACTION_NONE /\ r.url_is_valid
                 THEN Log(e, "OnFileStatusChanged",
                          [sync_action |-> r.sync_action])
                 ELSE e
           e2 == IF /\ r.sync_action = SYNC_ACTION_DELETED
                    /\ r.url_is_valid
                    /\ r.is_root_path
                 THEN RegisterOrigin(e1, has_refresh_token)
                 ELSE e1
       IN Log([e2 EXCEPT !.should_check_conflict_ = TRUE],
              "callback", [status |-> status])
  ELSE Log(e, "callback", [status |-> status])

\* What a RemoteToLocalSyncer can report of the change it processed.
RemoteToLocalSyncers ==
  [is_sync_root_deletion : BOOLEAN,
   sync_action : {SYNC_ACTION_NONE, SYNC_ACTION_DELETED},
   url_is_valid : BOOLEAN,
   is_root_path : BOOLEAN]

RemoteToLocalSyncerStatuses == {SYNC_STATUS_OK, SYNC_STATUS_FAILED}

\* A database that was loaded before: no application registered, or one whose
\* root is clean, or one with a dirty tracker below the root.
LoadedStores ==
  {EmptyStore,
   ChainStore(0, FILE_KIND_FOLDER, FALSE, RootDetails),
   ChainStore(1, FILE_KIND_FILE, TRUE,
              [ChainTracker(1, FILE_KIND_FILE, TRUE).synced_details
                 EXCEPT !.md5 = 3])}

\* The engine once SyncEngineInitializer has loaded the database, sync is
\* enabled and the service has answered.
RemoteInit ==
  /\ \E store \in LoadedStores :
       /\ trackers = store.trackers
       /\ files = store.files
       /\ next_id = store.next_id
       /\ hist = [all_ok |-> TRUE, raced |-> FALSE,
                  init_trackers |-> store.trackers]
  /\ context_ready = TRUE
  /\ local = [change |-> "AddOrUpdate", file_type |-> "File",
              metadata_type |-> "File", path |-> 1, md5 |-> 1,
              url_is_valid |-> TRUE]
  /\ syncer = NewSyncer
  /\ processor = NewProcessor
  /\ remote_calls = <<>>
  /\ pending_tasks_ = <<>>
  /\ running_task_ = NoTask
  /\ running_background_task_ = <<>>
  /\ listing_remote_changes_ = FALSE
  /\ service_state_ = REMOTE_SERVICE_OK
  /\ sync_enabled_ = TRUE
  /\ network_available_ = TRUE
  /\ should_check_remote_change_ = TRUE
  /\ should_check_conflict_ = TRUE
  /\ time_to_check_changes_ = 0
  /\ now = 0
  /\ log = <<>>
  /\ applies = 0
  /\ completed = 0
  /\ last = [status |-> "none", sync_action |-> SYNC_ACTION_NONE,
             target_path |-> 0, calls |-> <<>>,
             file_status_notified |-> FALSE,
             needs_remote_change_listing |-> FALSE, used_network |-> FALSE]

DoProcessRemoteChange ==
  /\ Handled(ProcessRemoteChange(Engine))
  /\ EventFrame

\* The running RemoteToLocalSyncer reports: the scheduler frees the lane,
\* tells the engine the status and runs DidProcessRemoteChange.
RemoteSyncerReports(r, status, used_network, has_refresh_token) ==
  LET told == NotifyLastOperationStatus(
                [Engine EXCEPT !.running_task_ = NoTask], status,
                used_network, has_refresh_token)
      done == DidProcessRemoteChange(
                Log(told, "DidProcessRemoteChange",
                    [syncer |-> r, status |-> status]),
                r, status, has_refresh_token)
  IN
  /\ running_task_.kind = "RemoteToLocalSyncer"
  /\ context_ready
  /\ Handled(done)
  /\ context_ready' = done.metadata_database
  /\ IF done.metadata_database
     THEN UNCHANGED store_vars
     ELSE /\ trackers' = EmptyStore.trackers
          /\ files' = EmptyStore.files
          /\ next_id' = EmptyStore.next_id
  /\ UNCHANGED <<local, processor, now, syncer, remote_calls, running_background_task_,
                 applies, completed, last, hist>>

DoRemoteSyncerReports ==
  \E r \in RemoteToLocalSyncers, status \in RemoteToLocalSyncerStatuses :
    \E used_network \in NetworkUses(status),
       has_refresh_token \in RefreshTokenAnswers(status) :
      RemoteSyncerReports(r, status, used_network, has_refresh_token)

RemoteNext ==
  \/ DoProcessRemoteChange
  \/ DoRemoteSyncerReports
  \/ DoMaybeScheduleNextTask
  \/ DoOnNotificationReceived
  \/ StartNextTask
  \/ DoPeerTaskReports
  \/ Tick

RemoteSpec == RemoteInit /\ [][RemoteNext]_vars

-----------------------------------------------------------------------------
(* Maintenance, admission order and remote changes *)

\* The Conflict Resolvers among the tasks.
Resolvers(tasks) == SelectSeq(tasks, LAMBDA t : t.kind = "ConflictResolver")

\* The number of Conflict Resolvers queued or running.
ResolversInFlight ==
  Len(Resolvers(pending_tasks_)) + Len(Resolvers(running_background_task_))
    + (IF running_task_.kind = "ConflictResolver" THEN 1 ELSE 0)

\* C21: a Conflict Resolver is scheduled only when the metadata store has no
\* dirty tracker and no Conflict Resolver is queued or running yet; so there
\* is never more than one.
C21_ResolverOnlyWithoutBacklog ==
  [][/\ ResolversInFlight' > ResolversInFlight =>
          /\ ~HasDirtyTracker(trackers)
          /\ ResolversInFlight = 0
     /\ ResolversInFlight' <= 1]_vars

\* C21's case: maintenance has started a Conflict Resolver on a loaded store
\* with a registered application and no dirty tracker.
C21_ResolverStarted ==
  /\ running_task_ = Task("ConflictResolver", "LOW")
  /\ trackers # {}
  /\ ~HasDirtyTracker(trackers)
  /\ ~should_check_conflict_

\* The step is a maintenance tick that finds the lane busy.
TickWhileBusy == running_task_ # NoTask /\ DoMaybeScheduleNextTask

\* C22: a maintenance tick that finds the lane busy skips the Change Lister
\* or Conflict Resolver it would have started and leaves what decides the
\* offer as it was (should_check_remote_change_, should_check_conflict_,
\* time_to_check_changes_, listing_remote_changes_), so that the next tick
\* offers the task again.
C22_SkippedTaskIsOfferedAgain ==
  [][(running_task_ # NoTask
        /\ <<should_check_remote_change_, should_check_conflict_,
             time_to_check_changes_, listing_remote_changes_>>' #
           <<should_check_remote_change_, should_check_conflict_,
             time_to_check_changes_, listing_remote_changes_>>) =>
       ~TickWhileBusy]_vars

\* The tasks the admission order is followed with, at every priority.
QueuedKinds == {"ListChangesTask", "RegisterAppTask"}

Priorities == {"HIGH", "MED", "LOW"}

\* SyncTaskManager::ScheduleSyncTask called with a task and a priority.
DoScheduleSyncTask ==
  /\ Len(pending_tasks_) < MaxQueued
  /\ \E kind \in QueuedKinds, priority \in Priorities :
       Commit(ScheduleSyncTask(Engine, kind, priority))
  /\ EventFrame

QueueNext ==
  \/ DoScheduleSyncTask
  \/ StartNextTask
  \/ PeerTaskDone

\* The scheduler under calls of ScheduleSyncTask, from the engine as
\* Initialize leaves it.
QueueSpec == EngineInit /\ [][QueueNext]_vars

\* The step admits a queued task to the exclusive lane.
Admits ==
  /\ running_task_ = NoTask
  /\ running_task_' # NoTask
  /\ Len(pending_tasks_') < Len(pending_tasks_)

\* C23: the task admitted next is the queued one of the highest priority
\* (High before Medium before Low), the first enqueued among those of equal
\* priority, and the others keep their order; a running task stays in the
\* lane until it reports, whatever is enqueued meanwhile.
C23_AdmissionByPriorityThenArrival ==
  [][/\ Admits =>
          \E i \in 1..Len(pending_tasks_) :
            /\ running_task_'.kind = pending_tasks_[i].kind
            /\ running_task_'.priority = pending_tasks_[i].priority
            /\ pending_tasks_' = RemoveAt(pending_tasks_, i)
            /\ \A j \in 1..Len(pending_tasks_) :
                 /\ PriorityRank(pending_tasks_[j].priority)
                      <= PriorityRank(pending_tasks_[i].priority)
                 /\ PriorityRank(pending_tasks_[j].priority)
                      = PriorityRank(pending_tasks_[i].priority) => i <= j
     /\ running_task_ # NoTask => running_task_' \in {running_task_, NoTask}]_vars

\* C23's case: a High-priority Change Lister has been admitted ahead of a
\* Medium-priority task that is first in the queue, and keeps the lane though
\* a High-priority task has been enqueued behind.
C23_HighAdmittedBeforeMedium ==
  /\ running_task_.kind = "ListChangesTask"
  /\ running_task_.priority = "HIGH"
  /\ Len(pending_tasks_) = 2
  /\ pending_tasks_[1].priority = "MED"
  /\ pending_tasks_[2] = Task("RegisterAppTask", "HIGH")

\* The RemoteToLocalSyncers whose report the scheduler handed to the engine in
\* the step (one, or none).
RemoteChangesReported ==
  {c.arg.syncer :
     c \in {log'[i] : i \in PositionsOf(log', "DidProcessRemoteChange")}}

\* The change r is the deletion of the root of an application's scope,
\* processed with success.
DeletesScopeRoot(r) ==
  /\ r.sync_action = SYNC_ACTION_DELETED
  /\ r.url_is_valid
  /\ r.is_root_path
  /\ CallsTo(log', "DidProcessRemoteChange")[1].arg.status = SYNC_STATUS_OK

\* The engine discards the metadata database and queues an initializer.
Reinitializes ==
  /\ PositionsOf(log', "ClearDatabase") # {}
  /\ ~context_ready'
  /\ trackers' = {}
  /\ \E k \in 1..Len(pending_tasks_') :
       pending_tasks_'[k] = Task("SyncEngineInitializer", "HIGH")

Reregisters == PositionsOf(log', "RegisterOrigin") # {}

\* C24 as stated: when the processed remote change is the deletion of a
\* scope's root, the engine both re-initializes the metadata store and
\* re-registers the scope.
C24_RootDeletionReinitializesAndReregisters ==
  [][\A r \in RemoteChangesReported :
       DeletesScopeRoot(r) => Reinitializes /\ Reregisters]_vars

\* C24, amended: the deletion of the sync root makes the engine re-initialize
\* the metadata store (discard it and queue an initializer) without
\* re-registering; the deletion of a scope's root, otherwise, makes it
\* re-register the scope and keep the metadata store; any other processed
\* change does neither.
C24_SyncRootReinitializesScopeRootReregisters ==
  [][\A r \in RemoteChangesReported :
       /\ Reinitializes <=> r.is_sync_root_deletion
       /\ Reregisters <=> (~r.is_sync_root_deletion /\ DeletesScopeRoot(r))
       /\ ~Reinitializes =>
            (context_ready' /\ PositionsOf(log', "ClearDatabase") = {})]_vars

\* C24's case: the deletion of the sync root has been processed; the database
\* is gone and the initializer is queued.
C24_SyncRootDeleted ==
  /\ PositionsOf(log, "ClearDatabase") # {}
  /\ PositionsOf(log, "RegisterOrigin") = {}
  /\ ~context_ready
  /\ pending_tasks_ = <<Task("SyncEngineInitializer", "HIGH")>>

-----------------------------------------------------------------------------
(* The syncer's runs, case by case *)

\* The Drive calls that change the remote store.
MutatingOps ==
  {"DeleteResource", "UploadNewFile", "UploadExistingFile", "CreateFolder",
   "RemoveResourceFromDirectory"}

IsMutating(call) == call.op \in MutatingOps

\* The mutating calls a run has issued, in order.
Mutations(calls) == SelectSeq(calls, IsMutating)

-----------------------------------------------------------------------------
(* C25 *)

\* C25 as stated: a single run of the syncer issues at most one remote
\* mutating call (delete resource, upload new file, upload existing file,
\* create folder, remove resource from directory).
C25_AtMostOneMutatingCall == Len(Mutations(remote_calls)) <= 1

\* C25, amended: a single run issues at most one remote mutating call, except
\* that a create folder whose new tracker cannot be activated is followed by
\* the removal of the created folder from the same parent directory.
C25_AtMostOneMutatingCallUnlessDetach ==
  LET m == Mutations(remote_calls) IN
  \/ Len(m) <= 1
  \/ /\ Ops(m) = <<"CreateFolder", "RemoveResourceFromDirectory">>
     /\ m[2].parent_id = m[1].parent_id

\* A run has ended after two Drive calls, one of them mutating: the upload
\* was rejected and the remote metadata fetched.
C25_RunOfTwoCallsEnded ==
  /\ syncer.pc = "done"
  /\ Len(remote_calls) = 2
  /\ Len(Mutations(remote_calls)) = 1

-----------------------------------------------------------------------------
(* C26 *)

\* C26: whenever a run of the syncer has marked that a remote listing is
\* needed, the status it reports is FileBusy, whatever the status of the step
\* that ended the run; and a run that has marked it does report.
C26_MarkedRunReportsFileBusy ==
  /\ last.needs_remote_change_listing => last.status = SYNC_STATUS_FILE_BUSY
  /\ syncer.needs_remote_change_listing_ =>
       /\ syncer.pc \notin {"crashed", "lost"}
       /\ syncer.pc = "done" => last.status = SYNC_STATUS_FILE_BUSY

\* A marked run has ended on a step of another status: the upload was
\* rejected, the remote metadata fetched and stored, which completes with
\* Retry.
C26_MarkedRunEndedByRetryStep ==
  /\ syncer.pc = "done"
  /\ syncer.needs_remote_change_listing_
  /\ hist.all_ok = FALSE
  /\ LastCallAnswered("GetFileResource", {"HTTP_SUCCESS"})
  /\ last.status = SYNC_STATUS_FILE_BUSY

-----------------------------------------------------------------------------
(* C27 *)

\* The run found a clean active tracker at the exact path of the local
\* change, and the local object (not missing) is of kind local_type.
CleanTrackerAtPath(local_type) ==
  /\ local.change = "AddOrUpdate"
  /\ local.file_type = local_type
  /\ local.metadata_type = local_type
  /\ syncer.pc \notin {"none", "RunExclusive"}
  /\ syncer.target_path_ = local.path
  /\ syncer.remote_file_tracker_.active
  /\ ~syncer.remote_file_tracker_.dirty

\* A local file change over a remote folder, or a local folder change over a
\* remote file.
C27_KindMismatch ==
  \/ /\ CleanTrackerAtPath("File")
     /\ syncer.remote_file_tracker_.synced_details.file_kind = FILE_KIND_FOLDER
  \/ /\ CleanTrackerAtPath("Directory")
     /\ syncer.remote_file_tracker_.synced_details.file_kind = FILE_KIND_FILE

\* The status a run reports after a delete bound to CompleteWithRetryStatus
\* was answered with reply: Retry, unless the request or the store write that
\* applies a not-found failed, whose error is then the status.
StatusesAfterClearingDelete(reply) ==
  CASE reply \in {"HTTP_SUCCESS", "HTTP_PRECONDITION", "HTTP_CONFLICT"} ->
         {SYNC_STATUS_RETRY}
    [] reply = "HTTP_NOT_FOUND" ->
         {SYNC_STATUS_RETRY} \cup (DatabaseStatuses \ {SYNC_STATUS_OK})
    [] OTHER -> {GDataErrorCodeToSyncStatusCode(reply)}

-----------------------------------------------------------------------------
(* C28 *)

\* A local folder change over a remote folder, or a local file change whose
\* content hash equals the tracker's synced hash, with a clean active tracker
\* at the exact target path.
C28_NothingToSync ==
  \/ /\ CleanTrackerAtPath("Directory")
     /\ syncer.remote_file_tracker_.synced_details.file_kind = FILE_KIND_FOLDER
  \/ /\ CleanTrackerAtPath("File")
     /\ syncer.remote_file_tracker_.synced_details.file_kind = FILE_KIND_FILE
     /\ local.md5 = syncer.remote_file_tracker_.synced_details.md5

\* C28: in that case every step of the run leaves the metadata store as it
\* was and issues no Drive call, and the run completes with Ok and action
\* None.
C28_NothingToSyncIsNoOp ==
  [][(syncer.pc \in {"RunExclusive", "DidGetMD5ForUpload"}
      /\ syncer'.pc # syncer.pc
      /\ C28_NothingToSync')
       => /\ UNCHANGED store_vars
          /\ remote_calls' = <<>>
          /\ syncer'.sync_action_ = SYNC_ACTION_NONE
          /\ ~syncer'.used_network
          /\ syncer'.pc \in {"DidGetMD5ForUpload", "done"}
          /\ syncer'.pc = "done" =>
               /\ last'.status = SYNC_STATUS_OK
               /\ last'.sync_action = SYNC_ACTION_NONE
               /\ ~last'.file_status_notified]_vars

\* An unchanged local file has been applied over its remote file and the run
\* has completed.
C28_UnchangedFileApplied ==
  /\ C28_NothingToSync
  /\ local.file_type = "File"
  /\ syncer.pc = "done"
  /\ last.status = SYNC_STATUS_OK
  /\ trackers = hist.init_trackers

-----------------------------------------------------------------------------
(* C29 *)

\* Conflict handling for a local folder change: the run found a dirty active
\* tracker at the exact path of the change.
C29_FolderConflict ==
  /\ local.change = "AddOrUpdate"
  /\ local.file_type = "Directory"
  /\ local.metadata_type = "Directory"
  /\ syncer.pc \notin {"none", "RunExclusive"}
  /\ syncer.target_path_ = local.path
  /\ syncer.remote_file_tracker_.active
  /\ syncer.remote_file_tracker_.dirty

\* The remote metadata stored for file_id is a folder that is not missing and
\* has the title under the parent.
IsWantedFolder(fs, file_id, title, parent_id) ==
  /\ file_id \in DOMAIN fs
  /\ ~fs[file_id].missing
  /\ fs[file_id].file_kind = FILE_KIND_FOLDER
  /\ fs[file_id].title = title
  /\ fs[file_id].parent = parent_id

\* C29: in conflict handling for a local folder change against a dirty
\* tracker, if the tracker's current remote metadata is a non-missing folder
\* with the same title under the same parent, the run only re-points the
\* tracker to that metadata (one store write, no Drive call) and completes;
\* otherwise it issues the creation of a new remote folder of that title
\* under that parent and leaves the store alone.
C29_ReuseFolderOrCreate ==
  [][(RunExclusiveStep /\ C29_FolderConflict') =>
       LET file_id == syncer'.remote_file_tracker_.tracker_id
           parent_id == syncer'.remote_parent_folder_tracker_.tracker_id
       IN
       IF IsWantedFolder(files, file_id, local.path, parent_id)
       THEN /\ remote_calls' = <<>>
            /\ ~syncer'.used_network
            /\ UNCHANGED <<files, next_id>>
            /\ syncer'.pc = "done"
            /\ last'.status \in DatabaseStatuses
            /\ trackers' = IF last'.status = SYNC_STATUS_OK
                           THEN UpdateTracker(trackers, file_id, files[file_id])
                           ELSE trackers
       ELSE /\ Ops(remote_calls') = <<"CreateFolder">>
            /\ remote_calls'[1].parent_id = parent_id
            /\ remote_calls'[1].title = local.path
            /\ syncer'.pc = "DidCreateRemoteFolder"
            /\ UNCHANGED store_vars]_vars

\* The tracker has been re-pointed to the remote folder it already had: the
\* run is over without a Drive call and the tracker is clean.
C29_TrackerRepointed ==
  /\ C29_FolderConflict
  /\ syncer.pc = "done"
  /\ remote_calls = <<>>
  /\ last.status = SYNC_STATUS_OK
  /\ ~FindTrackerByTrackerID(trackers, syncer.remote_file_tracker_.tracker_id).dirty
  /\ FindTrackerByTrackerID(trackers, syncer.remote_file_tracker_.tracker_id)
       .synced_details.file_kind = FILE_KIND_FOLDER

-----------------------------------------------------------------------------
(* C30 *)

\* The nearest active ancestor of the path of the local change, in the store
\* as the run finds it.
NearestAncestor == FindNearestActiveAncestor(trackers, local.path)

\* More than one path component is missing below the nearest active
\* ancestor, which is a file, and the local object is there.
C30_FileInThePath ==
  /\ context_ready
  /\ ~local_is_missing_
  /\ NearestAncestor.found
  /\ local.path - NearestAncestor.path > 1
  /\ NearestAncestor.tracker.synced_details.file_kind = FILE_KIND_FILE

\* The run is clearing a file out of the path above its target.
C30_ClearingThePath ==
  /\ syncer.target_path_ < local.path
  /\ syncer.remote_file_tracker_.active

-----------------------------------------------------------------------------
(* Observers, frames and listings *)

\* One of the run's Drive calls of kind op was answered with one of replies.
Answered(calls, ops, replies) ==
  \E i \in 1..Len(calls) : calls[i].op \in ops /\ calls[i].reply \in replies

\* The active trackers at the path the last run worked on.
ActiveAtTarget ==
  ActiveTrackersAt(trackers, syncer.remote_parent_folder_tracker_.tracker_id,
                   last.target_path)

\* The last run deleted its remote object, or found it gone already.
C31_Deleted ==
  Answered(last.calls, {"DeleteResource"}, {"HTTP_SUCCESS", "HTTP_NOT_FOUND"})

\* The last run added a remote object that is now the active one at its path.
C31_Added ==
  /\ Answered(last.calls, {"UploadNewFile", "CreateFolder"}, {"HTTP_SUCCESS"})
  /\ \E t \in ActiveAtTarget :
       /\ ~Tracked(hist.init_trackers, t.tracker_id)
       /\ t.synced_details.file_kind =
            IF Answered(last.calls, {"CreateFolder"}, {"HTTP_SUCCESS"})
            THEN FILE_KIND_FOLDER ELSE FILE_KIND_FILE

\* The last run updated the remote file, which is the active one at its path.
C31_Updated ==
  /\ Answered(last.calls, {"UploadExistingFile"}, {"HTTP_SUCCESS"})
  /\ \E t \in ActiveAtTarget :
       /\ t.tracker_id = syncer.remote_file_tracker_.tracker_id
       /\ t.synced_details.file_kind = FILE_KIND_FILE

\* C31: whenever file-status observers are notified with a non-None action
\* for an applied local change, the remote mutation the action names was
\* carried out by that run and its result is the active remote object (for
\* Deleted: the remote object is gone).
C31_NotifiedActionWasCarriedOut ==
  (syncer.pc = "done" /\ last.file_status_notified) =>
    CASE last.sync_action = SYNC_ACTION_DELETED -> C31_Deleted
      [] last.sync_action = SYNC_ACTION_ADDED -> C31_Added
      [] last.sync_action = SYNC_ACTION_UPDATED -> C31_Updated
      [] OTHER -> FALSE

\* Observers have been told of a deletion the server had rejected.
C31_RejectedDeleteNotified ==
  /\ syncer.pc = "done"
  /\ last.file_status_notified
  /\ last.sync_action = SYNC_ACTION_DELETED
  /\ LastCallAnswered("DeleteResource", {"HTTP_PRECONDITION", "HTTP_CONFLICT"})

-----------------------------------------------------------------------------
(* C32 *)

\* The step is the report of a LocalToRemoteSyncer.
SyncerReportStep ==
  running_task_.kind = "LocalToRemoteSyncer" /\ running_task_' = NoTask

\* C32: while sync is not enabled, GetCurrentState returns Disabled after
\* every task completion, push, authentication and network event; none of
\* those events notifies a service-state observer; and periodic maintenance,
\* called by the scheduler's client or from within an event, schedules
\* neither a Change Lister nor a Conflict Resolver and leaves the engine's
\* listing flags as they were (the only Change Lister scheduled meanwhile is
\* the one a syncer's report asks for).
C32_DisabledWhileSyncNotEnabled ==
  [][(~sync_enabled_ /\ ~sync_enabled_') =>
       /\ GetCurrentState(Engine)' = REMOTE_SERVICE_DISABLED
       /\ StatesNotified(log') = <<>>
       /\ ResolversInFlight' <= ResolversInFlight
       /\ ~SyncerReportStep =>
            /\ ListersInFlight' <= ListersInFlight
            /\ ~listing_remote_changes_ => ~listing_remote_changes_'
            /\ time_to_check_changes_' = time_to_check_changes_
       /\ DoMaybeScheduleNextTask =>
            UNCHANGED <<sched_vars, engine_vars>>]_vars

\* With sync not enabled and a listing due on an idle scheduler, the stored
\* state has been moved by an authentication event without a word to the
\* observers.
C32_EventsHandledWhileDisabled ==
  /\ ~sync_enabled_
  /\ context_ready
  /\ service_state_ = REMOTE_SERVICE_AUTHENTICATION_REQUIRED
  /\ should_check_remote_change_
  /\ running_task_ = NoTask
  /\ pending_tasks_ = <<>>
  /\ ~listing_remote_changes_
  /\ log = <<>>

-----------------------------------------------------------------------------
(* C33 *)

\* The path of a local delete has a dirty active tracker.
C33_DeleteOverDirtyTracker ==
  /\ context_ready
  /\ local.change = "Delete"
  /\ NearestAncestor.found
  /\ NearestAncestor.path = local.path
  /\ NearestAncestor.tracker.active
  /\ NearestAncestor.tracker.dirty

\* C33: a local delete whose target path has a dirty active tracker completes
\* with Ok and action None on the spot, issues no Drive call, and leaves the
\* tracker (still dirty) and the rest of the metadata store unchanged;
\* file-status observers are not notified.
C33_DeleteOverDirtyTrackerIsNoOp ==
  [][(RunExclusiveStep /\ C33_DeleteOverDirtyTracker) =>
       /\ Reports(SYNC_STATUS_OK)
       /\ last'.sync_action = SYNC_ACTION_NONE
       /\ remote_calls' = <<>>
       /\ ~last'.used_network
       /\ ~last'.file_status_notified
       /\ UNCHANGED store_vars
       /\ NearestAncestor' = NearestAncestor]_vars

\* A local delete over a dirty tracker has been applied and the tracker is
\* as dirty as before.
C33_DeleteOverDirtyTrackerApplied ==
  /\ C33_DeleteOverDirtyTracker
  /\ syncer.pc = "done"
  /\ syncer.remote_file_tracker_ = NearestAncestor.tracker
  /\ last.status = SYNC_STATUS_OK
  /\ last.calls = <<>>

-----------------------------------------------------------------------------
(* C34 *)

\* A non-delete local change whose local file metadata is missing.
C34_StrayChange ==
  /\ context_ready
  /\ local.change # "Delete"
  /\ local.metadata_type = "Unknown"

\* C34: a non-delete local change whose local file metadata is missing (file
\* type unknown) completes with Ok and action None on the spot, whatever the
\* metadata store holds, registered scope or not: no Drive call is issued,
\* the store is unchanged, nobody is notified and no registration is asked
\* for.
C34_StrayChangeIsNoOp ==
  [][(RunExclusiveStep /\ C34_StrayChange) =>
       /\ Reports(SYNC_STATUS_OK)
       /\ last'.sync_action = SYNC_ACTION_NONE
       /\ remote_calls' = <<>>
       /\ ~last'.used_network
       /\ ~last'.file_status_notified
       /\ PositionsOf(log', "RegisterOrigin") = {}
       /\ UNCHANGED <<store_vars, pending_tasks_>>]_vars

\* A stray change has been applied in a scope that is not registered.
C34_StrayChangeAppliedUnregistered ==
  /\ C34_StrayChange
  /\ ~ScopeRegistered
  /\ syncer.pc = "done"
  /\ last.status = SYNC_STATUS_OK

-----------------------------------------------------------------------------
(* C35 *)

\* The run has ended on a remote delete the server accepted.
C35_DeleteAccepted ==
  syncer.pc = "done" /\ LastCallAnswered("DeleteResource", {"HTTP_SUCCESS"})

-----------------------------------------------------------------------------
(* C36 *)

\* The step handles the answer of the upload over the existing remote file,
\* and the server accepted the upload.
UploadAccepted ==
  /\ syncer.pc = "DidUploadExistingFile"
  /\ syncer'.pc # "DidUploadExistingFile"
  /\ remote_calls'[Len(remote_calls')].reply = "HTTP_SUCCESS"

\* The metadata stored for file_id is a file that is not missing and has the
\* title under the parent.
IsWantedFile(fs, file_id, title, parent_id) ==
  /\ file_id \in DOMAIN fs
  /\ ~fs[file_id].missing
  /\ fs[file_id].file_kind = FILE_KIND_FILE
  /\ fs[file_id].title = title
  /\ fs[file_id].parent = parent_id

-----------------------------------------------------------------------------
(* C37 *)

\* The step is the completion of the running Change Lister.
ListerCompletes ==
  running_task_.kind = "ListChangesTask" /\ running_task_' # running_task_

\* C37: every Change Lister the engine schedules clears the
\* listing-in-flight flag on the step it completes, with any status, so that
\* a later listing request finds the flag clear; the flag is set exactly
\* while a Change Lister is queued or running: it is raised only by a step
\* that schedules one and cleared only by the completion of one.
C37_ListingFlagFollowsLister ==
  [][/\ ListerCompletes =>
          /\ Reported(log') # <<>>
          /\ ~listing_remote_changes_'
          /\ ListersInFlight' = 0
     /\ listing_remote_changes_' <=> ListersInFlight' > 0
     /\ (listing_remote_changes_ /\ ~listing_remote_changes_') =>
          ListerCompletes
     /\ (~listing_remote_changes_ /\ listing_remote_changes_') =>
          ListersInFlight' = ListersInFlight + 1]_vars

\* A Change Lister was scheduled (which alone clears
\* should_check_remote_change_), the last task to complete reported a
\* failure, and the flag is clear with no lister left.
C37_FlagClearAfterFailedListing ==
  /\ ~should_check_remote_change_
  /\ ~listing_remote_changes_
  /\ ListersInFlight = 0
  /\ should_check_conflict_ = FALSE
  /\ Reported(log) # <<>>
  /\ Reported(log)[1].arg.status = SYNC_STATUS_FAILED

-----------------------------------------------------------------------------
(* ChangeListProcessor (chromeos/drive/change_list_processor.cc): a change  *)
(* list is turned into a map of entries by resource id, and the entries are *)
(* handed to DriveResourceMetadata one at a time, a parent before its       *)
(* children.  DriveResourceMetadata is taken by what it answers: every      *)
(* request is answered once, by the callback bound to it.  Resource ids are *)
(* numbers, ordered as std::map orders its keys; 0 is the empty id.         *)

\* The largest resource id of a change list.
MaxEntries == 3

\* DriveFileError, as far as the processor tells the values apart.
DRIVE_FILE_OK == "DRIVE_FILE_OK"
DRIVE_FILE_ERROR_NOT_FOUND == "DRIVE_FILE_ERROR_NOT_FOUND"
DRIVE_FILE_ERROR_FAILED == "DRIVE_FILE_ERROR_FAILED"
DriveFileErrors ==
  {DRIVE_FILE_OK, DRIVE_FILE_ERROR_NOT_FOUND, DRIVE_FILE_ERROR_FAILED}

\* The entries a feed can carry: a resource id, empty for a document that
\* maps to no file, and the resource id of the parent, which may be empty,
\* the entry's own, another entry's, or one the feed does not carry.
FeedEntries ==
  [resource_id : 0..MaxEntries, parent_resource_id : 0..MaxEntries]

\* The change lists handed to ApplyFeeds, as the entries of the feeds in
\* order.
Feeds == UNION {[1..n -> FeedEntries] : n \in 0..MaxEntries}

\* ChangeListProcessor::FeedToEntryProtoMap, the loop over the entries:
\* an entry with an empty resource id is skipped, and of two entries with
\* one resource id the first stays (std::map::insert).
RECURSIVE FeedToEntryProtoMap(_, _)
FeedToEntryProtoMap(entries, map) ==
  IF entries = <<>> THEN map
  ELSE LET entry_proto == Head(entries)
       IN FeedToEntryProtoMap(
            Tail(entries),
            IF \/ entry_proto.resource_id = 0
               \/ entry_proto.resource_id \in DOMAIN map
              THEN map
              ELSE map @@ (entry_proto.resource_id :> entry_proto))

\* entry_proto_map_.begin(): the entry with the least key.
Begin(map) == CHOOSE id \in DOMAIN map : \A other \in DOMAIN map : id <= other

\* entry_proto_map_.erase(it).
Erase(map, it) == [id \in DOMAIN map \ {it} |-> map[id]]

\* ApplyNextByIterator as it would be without the lookup of the parent: the
\* entry at the iterator is erased and applied.
ApplyNextByIteratorInMapOrder(p, it) ==
  [p EXCEPT !.entry_proto_map_ = Erase(@, it),
            !.it = 0,
            !.task = "ContinueApplyEntryProto",
            !.entry_proto = p.entry_proto_map_[it],
            !.applied = Append(@, it)]

\* ChangeListProcessor::ApplyNextByIterator: when the parent of the entry is
\* in the map, the call is posted again for the parent; otherwise the entry
\* is erased from the map and applied (ApplyEntryProto looks the entry up in
\* the metadata and binds ContinueApplyEntryProto to the answer).
ApplyNextByIterator(p, it) ==
  LET entry_proto == p.entry_proto_map_[it]
      parent_it == entry_proto.parent_resource_id
  IN IF parent_it \in DOMAIN p.entry_proto_map_
       THEN [p EXCEPT !.task = "ApplyNextByIterator", !.it = parent_it]
       ELSE [p EXCEPT !.entry_proto_map_ = Erase(@, it),
                      !.it = 0,
                      !.task = "ContinueApplyEntryProto",
                      !.entry_proto = entry_proto,
                      !.applied = Append(@, entry_proto.resource_id)]

\* What a step of the processor leaves unchanged.
ProcessorFrame ==
  UNCHANGED <<store_vars, local, context_ready, syncer, remote_calls,
              sched_vars, engine_vars, now, log, applies, hist>>

\* ChangeListProcessor::ApplyFeeds with ApplyEntryProtoMap: the map is built
\* (FeedToEntryProtoMap clears the processor first and takes the upload URL
\* of the root from the first feed), the completion callback is kept, and
\* the first entry is asked for: at once for a delta feed, after RemoveAll
\* has answered for a full update.  A processor is followed through one
\* change list.
ApplyFeeds ==
  /\ processor.task = "none"
  /\ processor.on_complete_callback_is_null
  /\ \E feed \in Feeds, has_upload_link \in BOOLEAN, is_delta_feed \in BOOLEAN :
       LET map == FeedToEntryProtoMap(feed, <<>>)
       IN processor' =
            [NewProcessor EXCEPT
               !.entry_proto_map_ = map,
               !.fed_map = map,
               !.root_upload_url_is_valid = has_upload_link,
               !.on_complete_callback_is_null = FALSE,
               !.task = IF is_delta_feed THEN "ApplyNextEntryProto"
                                         ELSE "RemoveAll"]
  /\ ProcessorFrame

\* The callbacks of the metadata that go on with the next entry: RemoveAll's
\* (ApplyNextEntryProtoAsync itself), NotifyForAddEntry,
\* NotifyForRefreshEntry and NotifyForRemoveEntryFromParent, which all end
\* in ApplyNextEntryProtoAsync; it posts ApplyNextEntryProto.
ApplyNextEntryProtoAsync ==
  /\ processor.task \in {"RemoveAll", "NotifyForAddEntry",
                         "NotifyForRefreshEntry",
                         "NotifyForRemoveEntryFromParent"}
  /\ processor' = [processor EXCEPT !.task = "ApplyNextEntryProto",
                                    !.entry_proto = 0]
  /\ ProcessorFrame

\* ChangeListProcessor::ApplyNextEntryProto, the posted task: the first
\* entry of the map is taken up; with the map empty the upload URL of the
\* root is stored when there is one (UpdateRootUploadUrl asks for the root
\* entry), and otherwise the run completes (OnComplete stores the
\* changestamp and binds RunOnCompleteCallback to the answer).
ApplyNextEntryProto ==
  /\ processor.task = "ApplyNextEntryProto"
  /\ processor' =
       IF DOMAIN processor.entry_proto_map_ # {}
         THEN ApplyNextByIterator(processor, Begin(processor.entry_proto_map_))
       ELSE IF processor.root_upload_url_is_valid
         THEN [processor EXCEPT !.task = "OnGetRootEntryProto"]
       ELSE [processor EXCEPT !.task = "RunOnCompleteCallback"]
  /\ ProcessorFrame

\* The posted ApplyNextByIterator runs with the iterator bound to it.
DoApplyNextByIterator ==
  /\ processor.task = "ApplyNextByIterator"
  /\ processor' = ApplyNextByIterator(processor, processor.it)
  /\ ProcessorFrame

\* ChangeListProcessor::ContinueApplyEntryProto, the answer of the lookup:
\* an entry that is there is removed from its parent when the change deletes
\* it (RemoveEntryFromParent, OnGetChildrenForRemove) and refreshed
\* otherwise (RefreshEntry), an entry that is not found and not deleted is
\* added (AddEntry), and anything else goes on with the next entry.
ContinueApplyEntryProto ==
  /\ processor.task = "ContinueApplyEntryProto"
  /\ \E error \in DriveFileErrors, deleted \in BOOLEAN :
       processor' =
         [processor EXCEPT
            !.task =
              IF error = DRIVE_FILE_OK
                THEN IF deleted THEN "NotifyForRemoveEntryFromParent"
                                ELSE "NotifyForRefreshEntry"
              ELSE IF error = DRIVE_FILE_ERROR_NOT_FOUND /\ ~deleted
                THEN "NotifyForAddEntry"
              ELSE "ApplyNextEntryProto",
            !.entry_proto =
              IF error = DRIVE_FILE_OK
                   \/ (error = DRIVE_FILE_ERROR_NOT_FOUND /\ ~deleted)
                THEN @ ELSE 0]
  /\ ProcessorFrame

\* ChangeListProcessor::OnGetRootEntryProto: without the root entry the run
\* completes; with it the upload URL is written by RefreshEntry, to which
\* OnUpdateRootUploadUrl is bound.
OnGetRootEntryProto ==
  /\ processor.task = "OnGetRootEntryProto"
  /\ \E error \in DriveFileErrors :
       processor' =
         [processor EXCEPT
            !.task = IF error # DRIVE_FILE_OK THEN "RunOnCompleteCallback"
                                              ELSE "OnUpdateRootUploadUrl"]
  /\ ProcessorFrame

\* ChangeListProcessor::OnUpdateRootUploadUrl: the run completes whatever
\* the refresh answered.
OnUpdateRootUploadUrl ==
  /\ processor.task = "OnUpdateRootUploadUrl"
  /\ processor' = [processor EXCEPT !.task = "RunOnCompleteCallback"]
  /\ ProcessorFrame

\* RunOnCompleteCallback, bound by OnComplete to the answer of
\* SetLargestChangestamp: the completion callback is run.
RunOnCompleteCallback ==
  /\ processor.task = "RunOnCompleteCallback"
  /\ processor' = [processor EXCEPT !.task = "none",
                                    !.on_complete_callback_runs = @ + 1]
  /\ ProcessorFrame

\* A processor as its constructor leaves it; the sync engine, which it has
\* no part in, stays as Initialize leaves it without a network.
ProcessorInit == EngineInit /\ ~network_available_

ProcessorNext ==
  \/ ApplyFeeds
  \/ ApplyNextEntryProtoAsync
  \/ ApplyNextEntryProto
  \/ DoApplyNextByIterator
  \/ ContinueApplyEntryProto
  \/ OnGetRootEntryProto
  \/ OnUpdateRootUploadUrl
  \/ RunOnCompleteCallback

\* The processor applying one change list.
ProcessorSpec == ProcessorInit /\ [][ProcessorNext]_vars

-----------------------------------------------------------------------------
(* The order and the end of a change list's application.                    *)

\* The entry the change list carried for a resource id has its parent among
\* the entries of the list.
ParentInFeed(id) ==
  processor.fed_map[id].parent_resource_id \in DOMAIN processor.fed_map

\* C38: an entry whose parent is an entry of the same change list is applied
\* only after that parent: whenever such an entry has been handed to
\* ApplyEntryProto, its parent was handed over before it and is no longer in
\* the entry map.
C38_ParentAppliedFirst ==
  \A i \in 1..Len(processor.applied) :
    ParentInFeed(processor.applied[i]) =>
      LET parent == processor.fed_map[processor.applied[i]].parent_resource_id
      IN /\ \E j \in 1..(i - 1) : processor.applied[j] = parent
         /\ parent \notin DOMAIN processor.entry_proto_map_

\* C38's case: a change list whose first entry lies under its second, and
\* that under its third, has been applied from the top of the chain down.
C38_ChainAppliedFromTheTop ==
  /\ processor.applied = <<3, 2, 1>>
  /\ processor.fed_map[1].parent_resource_id = 2
  /\ processor.fed_map[2].parent_resource_id = 3

\* The message loop runs every posted task, and DriveResourceMetadata
\* answers every request: a step of the processor that can be taken is
\* taken.
ProcessorFairSpec == ProcessorSpec /\ WF_vars(ProcessorNext)

\* Every entry of the change list has been applied exactly once, and the
\* completion callback has been run exactly once.
AppliedAndCompleted ==
  /\ processor.task = "none"
  /\ processor.on_complete_callback_runs = 1
  /\ Len(processor.applied) = Cardinality(DOMAIN processor.fed_map)
  /\ \A id \in DOMAIN processor.fed_map :
       \E i \in 1..Len(processor.applied) : processor.applied[i] = id

\* C39: whatever parents the entries of a change list name, ApplyFeeds comes
\* to its end: every entry of the map is applied exactly once and the
\* completion callback is run exactly once.
C39_ApplyFeedsTerminates ==
  ~processor.on_complete_callback_is_null ~> AppliedAndCompleted

\* C39's case: ApplyNextByIterator has been posted for an entry that names
\* itself as its parent, and finds that entry in the map again.
C39_SelfParentPostedAgain ==
  /\ processor.task = "ApplyNextByIterator"
  /\ processor.entry_proto_map_[processor.it].parent_resource_id = processor.it

====
